---- MODULE Spec2Model ----
(***************************************************************************)
(* A model of the acquisition-and-ingestion pipeline of FinLens:           *)
(*   - RateLimiter (src/core/rate_limiting.py) and the request helpers     *)
(*     that call it, under the threads of PipelineService;                 *)
(*   - PipelineService's bulk, incremental and backfill runs over the      *)
(*     companies and filings tables.                                       *)
(* Time is counted in ticks of the monotonic clock.                        *)
(***************************************************************************)
EXTENDS Integers, Sequences, FiniteSets, TLC

VARIABLES
    \* ---- RateLimiter and the threads that call it
    now,                \* time.monotonic()
    lock,               \* RateLimiter._lock of each limiter: "free" or the holder
    last_request_time,  \* RateLimiter.last_request_time of each limiter
    tpc,                \* where each thread is
    tcomp,              \* the component whose request the thread is making
    wake_at,            \* the earliest instant time.sleep(wait_time) may return
    tpass,              \* the instant the thread's current call wrote last_request_time
    passes,             \* the instants at which last_request_time was written
    returns,            \* the instants at which calls of wait() returned
    requests,           \* the outbound HTTP requests issued so far
    ncalls,             \* calls of wait() started
    first_call,         \* the instant the first call of wait() started
    pool_open,          \* inside `with ThreadPoolExecutor(...)` of download_filing_documents
    attr_errors,        \* AttributeErrors raised by _fetch_company_data_from_api
    \* ---- what EDGAR serves
    edgar,              \* the bulk archive's files, the daily and the quarterly indices
    \* ---- the relational store
    companies,          \* table companies: a set of rows keyed by cik
    filings,            \* table filings: its rows in insertion order
    foreign_key_checks, \* the store enforces filings.cik -> companies.cik
    \* ---- the run PipelineService is executing
    op,                 \* "none", "bulk", "incremental" or "backfill"
    pc,                 \* where the run is
    input,              \* the source data the run reads
    result,             \* what the run returned: "True", "False", or "none"
    raised,             \* the exception that ended the run, or "none"
    runs,               \* runs started so far
    faulted,            \* the environment failed the run (store rejection, download)
    prev,               \* the last finished run: its input and the store it left
    \* ---- locals of _ingest_bulk_json_data
    chunk_index,
    chunk_company_data,
    chunk_filings_data,
    total_parse_errors,
    overall_success,
    company_list_bound,     \* the local name company_list_chunk is bound
    final_filings_bound,    \* the local name final_filings_to_insert_chunk is bound
    files_parsed,           \* files handed to _parse_cik_json_worker in this run
    rejected,               \* the store rejected a write of this run
    inserted_count,         \* <<n>> if the last bulk_insert_ignore returned n, else <<>>
    insert_calls,           \* calls of bulk_insert_ignore in this run
    \* ---- locals of run_incremental_update and run_historical_backfill
    date_index,                 \* dates (or quarters) of the run processed so far
    all_filings_from_indices,
    ciks_in_recent_filings,     \* the CIKs the loop of step 5 has not reached yet
    companies_to_upsert,
    api_fetch_errors,
    fetch_log,                  \* what each call of _fetch_company_data_from_api did
    index_log,                  \* what each download of a daily or quarterly index did
    \* ---- download_filing_documents and its locals
    doc_pc,
    doc_input,
    doc_index,                  \* filings of the list examined so far
    download_tasks,
    prep_errors,
    skipped_existing,
    disk,                       \* the files under document_storage_dir
    disk_at_start,              \* as they were before the call
    future_to_path,
    future_result,              \* "pending", or what the future's download returned
    success_count,
    failure_count,
    doc_result,                 \* <<success_count, failure_count>> once returned
    doc_raised,
    scan_log,                   \* what stage 1 did with each filing examined
    \* ---- BulkDownloader.download
    archive_pc,
    archive_file,               \* the file at output_path
    archive_result,
    archive_calls,
    \* ---- one call of a parser or of a repository method
    fn_pc,
    fn_input,
    fn_output

pacerVars == <<now, lock, last_request_time, tpc, tcomp, wake_at, tpass, passes,
               returns, requests, ncalls, first_call, pool_open, attr_errors>>

storeVars == <<companies, filings, foreign_key_checks, edgar>>
runVars == <<op, pc, input, result, raised, runs, faulted, prev>>
bulkVars == <<chunk_index, chunk_company_data, chunk_filings_data,
              total_parse_errors, overall_success, company_list_bound,
              final_filings_bound, files_parsed, rejected, inserted_count,
              insert_calls>>

bulkVars_but_rejected == <<chunk_index, chunk_company_data, chunk_filings_data,
                           total_parse_errors, overall_success, company_list_bound,
                           final_filings_bound, files_parsed, inserted_count,
                           insert_calls>>

incVars == <<date_index, all_filings_from_indices, ciks_in_recent_filings,
             companies_to_upsert, api_fetch_errors, fetch_log, index_log>>

docVars == <<doc_pc, doc_input, doc_index, download_tasks, prep_errors,
             skipped_existing, disk, disk_at_start, future_to_path, future_result,
             success_count, failure_count, doc_result, doc_raised, scan_log>>

archiveVars == <<archive_pc, archive_file, archive_result, archive_calls>>

fnVars == <<fn_pc, fn_input, fn_output>>

vars == <<pacerVars, storeVars, runVars, bulkVars, incVars, docVars, archiveVars,
          fnVars>>

-----------------------------------------------------------------------------
(* Bounds of the model *)
MaxTime == 6
MaxCalls == 3
MaxAttrErrors == 1
MaxFiles == 3
MaxChunkSize == 2
MaxRuns == 2
MaxDays == 2
MaxEdgarFiles == 2

\* The part of the state the limiter's threads leave alone.
IngestIdle ==
    UNCHANGED <<storeVars, runVars, bulkVars, incVars, docVars, archiveVars, fnVars>>

\* The state of a PipelineService that has run nothing yet, on an empty store.
IngestAtRest ==
    /\ companies = {}
    /\ filings = <<>>
    /\ op = "none"
    /\ pc = "idle"
    /\ input = <<>>
    /\ result = "none"
    /\ raised = "none"
    /\ runs = 0
    /\ faulted = FALSE
    /\ prev = [op |-> "none"]
    /\ chunk_index = 0
    /\ chunk_company_data = <<>>
    /\ chunk_filings_data = <<>>
    /\ total_parse_errors = 0
    /\ overall_success = TRUE
    /\ company_list_bound = FALSE
    /\ final_filings_bound = FALSE
    /\ files_parsed = 0
    /\ rejected = FALSE
    /\ inserted_count = <<>>
    /\ insert_calls = 0
    /\ date_index = 0
    /\ all_filings_from_indices = <<>>
    /\ ciks_in_recent_filings = {}
    /\ companies_to_upsert = <<>>
    /\ api_fetch_errors = 0
    /\ fetch_log = <<>>
    /\ index_log = <<>>

\* No call of download_filing_documents yet.
DocAtRest ==
    /\ doc_pc = "idle"
    /\ doc_input = <<>>
    /\ doc_index = 0
    /\ download_tasks = <<>>
    /\ prep_errors = 0
    /\ skipped_existing = 0
    /\ future_to_path = <<>>
    /\ future_result = <<>>
    /\ success_count = 0
    /\ failure_count = 0
    /\ doc_result = <<>>
    /\ doc_raised = "none"
    /\ scan_log = <<>>
    /\ disk_at_start = disk

\* No single call under way.
FnAtRest ==
    /\ fn_pc = "idle"
    /\ fn_input = <<>>
    /\ fn_output = <<>>

\* No call of BulkDownloader.download yet.
ArchiveAtRest ==
    /\ archive_pc = "idle"
    /\ archive_file = <<>>
    /\ archive_result = "none"
    /\ archive_calls = 0

-----------------------------------------------------------------------------
(* RateLimiter *)

\* settings.sec_api.rate_limit, in ticks
min_interval == 2

Workers == {"w1", "w2"}
Threads == {"main"} \cup Workers

\* The components that issue HTTP requests from the main thread, and the one
\* that issues them from the download workers.
MainComponents == {"bulk", "index", "scanner"}
WorkerComponents == {"document"}

RateLimiters == {"pipeline", "private"}

\* The attributes PipelineService.__init__ assigns.
PipelineServiceAttrs ==
    {"settings", "rate_limiter", "engine", "session_factory", "company_repo",
     "filing_repo", "bulk_downloader", "index_downloader", "document_downloader",
     "json_parser", "index_parser", "html_parser", "data_path", "submissions_dir",
     "tenk_docs_dir", "document_storage_dir"}

\* A component with a limiter of its own instead of the shared one.
RateLimiterOfPrivateScanner(c) == IF c = "scanner" THEN "private" ELSE "pipeline"

\* PipelineService.__init__ hands the one RateLimiter to every downloader and
\* to the HTML parser.
RateLimiterOf(c) == "pipeline"

\* wait_time one tick short.
wait_time_short(time_since_last) == min_interval - time_since_last - 1

\* wait_time = self.min_interval - time_since_last
wait_time(time_since_last) == min_interval - time_since_last

\* A RateLimiter just constructed, and no thread inside it.
PacerAtRest ==
    /\ lock = [l \in RateLimiters |-> "free"]
    /\ last_request_time = [l \in RateLimiters |-> 0]
    /\ tpc = [t \in Threads |-> "idle"]
    /\ tcomp = [t \in Threads |-> "none"]
    /\ wake_at = [t \in Threads |-> 0]
    /\ tpass = [t \in Threads |-> 0]
    /\ passes = <<>>
    /\ returns = <<>>
    /\ requests = <<>>
    /\ ncalls = 0
    /\ first_call = 0
    /\ pool_open = FALSE
    /\ attr_errors = 0

\* An EDGAR that serves nothing.
NoEdgar == [files |-> <<>>, daily |-> <<>>, quarterly |-> <<>>]

PacerInit ==
    /\ now \in {0, min_interval}
    /\ PacerAtRest
    /\ foreign_key_checks = TRUE
    /\ edgar = NoEdgar
    /\ IngestAtRest
    /\ disk = {}
    /\ DocAtRest
    /\ ArchiveAtRest
    /\ FnAtRest

\* The monotonic clock advances.
Tick ==
    /\ IngestIdle
    /\ now < MaxTime
    /\ now' = now + 1
    /\ UNCHANGED <<lock, last_request_time, tpc, tcomp, wake_at, tpass, passes,
                   returns, requests, ncalls, first_call, pool_open, attr_errors>>

\* download_filing_documents enters the executor: the main thread submits the
\* tasks and then only waits for the futures.
StartPool ==
    /\ IngestIdle
    /\ ~pool_open
    /\ tpc["main"] = "idle"
    /\ pool_open' = TRUE
    /\ UNCHANGED <<now, lock, last_request_time, tpc, tcomp, wake_at, tpass,
                   passes, returns, requests, ncalls, first_call, attr_errors>>

\* The executor's with-block ends once every worker is done.
EndPool ==
    /\ IngestIdle
    /\ pool_open
    /\ \A w \in Workers : tpc[w] = "idle"
    /\ pool_open' = FALSE
    /\ UNCHANGED <<now, lock, last_request_time, tpc, tcomp, wake_at, tpass,
                   passes, returns, requests, ncalls, first_call, attr_errors>>

\* A thread enters _make_request / _make_request_internal for component c and
\* calls self.rate_limiter.wait().
CallWait(t, c) ==
    /\ IngestIdle
    /\ tpc[t] = "idle"
    /\ ncalls < MaxCalls
    /\ tpc' = [tpc EXCEPT ![t] = "acquire"]
    /\ tcomp' = [tcomp EXCEPT ![t] = c]
    /\ ncalls' = ncalls + 1
    /\ first_call' = IF ncalls = 0 THEN now ELSE first_call
    /\ UNCHANGED <<now, lock, last_request_time, wake_at, tpass, passes, returns,
                   requests, pool_open, attr_errors>>

MainRequest(c) ==
    /\ ~pool_open
    /\ CallWait("main", c)

WorkerRequest(w) ==
    /\ pool_open
    /\ CallWait(w, "document")

\* _fetch_company_data_from_api builds api_url from self.submissions_api_base
\* before its first request.
MetadataRequest ==
    /\ ~pool_open
    /\ tpc["main"] = "idle"
    /\ IF "submissions_api_base" \in PipelineServiceAttrs
       THEN /\ CallWait("main", "metadata")
       ELSE /\ attr_errors < MaxAttrErrors
            /\ attr_errors' = attr_errors + 1
            /\ IngestIdle
            /\ UNCHANGED <<now, lock, last_request_time, tpc, tcomp, wake_at,
                           tpass, passes, returns, requests, ncalls, first_call,
                           pool_open>>

\* with self._lock: current_time = time.monotonic(), and the branch on
\* time_since_last.  When no wait is needed last_request_time is written and
\* the lock released in the same step.
EnterWait(t) ==
    LET l == RateLimiterOf(tcomp[t])
        time_since_last == now - last_request_time[l]
    IN  /\ tpc[t] = "acquire"
        /\ IngestIdle
        /\ lock[l] = "free"
        /\ IF time_since_last < min_interval
           THEN /\ lock' = [lock EXCEPT ![l] = t]
                /\ wake_at' = [wake_at EXCEPT ![t] = now + wait_time(time_since_last)]
                /\ tpc' = [tpc EXCEPT ![t] = "sleeping"]
                /\ UNCHANGED <<last_request_time, tpass, passes>>
           ELSE /\ last_request_time' = [last_request_time EXCEPT ![l] = now]
                /\ tpass' = [tpass EXCEPT ![t] = now]
                /\ passes' = Append(passes, now)
                /\ tpc' = [tpc EXCEPT ![t] = "returning"]
                /\ UNCHANGED <<lock, wake_at>>
        /\ UNCHANGED <<now, tcomp, returns, requests, ncalls, first_call,
                       pool_open, attr_errors>>

\* time.sleep(wait_time) returns, no earlier than asked;
\* self.last_request_time = time.monotonic(); the lock is released.
WakeUp(t) ==
    LET l == RateLimiterOf(tcomp[t])
    IN  /\ tpc[t] = "sleeping"
        /\ IngestIdle
        /\ now >= wake_at[t]
        /\ last_request_time' = [last_request_time EXCEPT ![l] = now]
        /\ tpass' = [tpass EXCEPT ![t] = now]
        /\ passes' = Append(passes, now)
        /\ lock' = [lock EXCEPT ![l] = "free"]
        /\ wake_at' = [wake_at EXCEPT ![t] = 0]
        /\ tpc' = [tpc EXCEPT ![t] = "returning"]
        /\ UNCHANGED <<now, tcomp, returns, requests, ncalls, first_call,
                       pool_open, attr_errors>>

\* wait() returns to its caller.
Return(t) ==
    /\ tpc[t] = "returning"
    /\ IngestIdle
    /\ returns' = Append(returns, now)
    /\ tpc' = [tpc EXCEPT ![t] = "request"]
    /\ UNCHANGED <<now, lock, last_request_time, tcomp, wake_at, tpass, passes,
                   requests, ncalls, first_call, pool_open, attr_errors>>

\* requests.get(url, ...): the request goes out.
IssueRequest(t) ==
    /\ tpc[t] = "request"
    /\ IngestIdle
    /\ requests' = Append(requests,
                          [component |-> tcomp[t], passed |-> tpass[t],
                           issued |-> now])
    /\ tpc' = [tpc EXCEPT ![t] = "idle"]
    /\ tcomp' = [tcomp EXCEPT ![t] = "none"]
    /\ tpass' = [tpass EXCEPT ![t] = 0]
    /\ UNCHANGED <<now, lock, last_request_time, wake_at, passes, returns,
                   ncalls, first_call, pool_open, attr_errors>>

PacerNext ==
    \/ Tick
    \/ StartPool
    \/ EndPool
    \/ \E c \in MainComponents : MainRequest(c)
    \/ \E w \in Workers : WorkerRequest(w)
    \/ MetadataRequest
    \/ \E t \in Threads : EnterWait(t)
    \/ \E t \in Threads : WakeUp(t)
    \/ \E t \in Threads : Return(t)
    \/ \E t \in Threads : IssueRequest(t)

SpecPacer == PacerInit /\ [][PacerNext]_vars

-----------------------------------------------------------------------------
(* The source data of a bulk run: the extracted CIK*.json files *)

\* CIKs are strings of digits.
CikA == <<0, 0, 0, 0, 0, 0, 0, 0, 0, 1>>
CikB == <<0, 0, 0, 0, 0, 0, 0, 0, 0, 2>>
CikC == <<0, 0, 0, 0, 0, 0, 0, 0, 0, 3>>
CikD == <<0, 0, 0, 0, 0, 0, 0, 0, 0, 4>>

\* An accession number NNNNNNNNNN-YY-SSSSSS, written as its eighteen digits.
Acc(n) == <<0, 0, 0, 0, 0, 0, 0, 0, 0, 9, 2, 4, 0, 0, 0, 0, 0, n>>

\* The strings datetime.strptime(date_str, '%Y-%m-%d') accepts.
ValidDates == {"2024-01-02", "2024-02-03"}

\* A company with two filings.
FileA ==
    [name_digits |-> CikA, json_ok |-> TRUE, entityName |-> "Acme", sic |-> "3570",
     recent |-> << [accessionNumber |-> Acc(1), primaryDocument |-> "a1.htm",
                    form |-> "10-K", filingDate |-> "2024-01-02"],
                   [accessionNumber |-> Acc(2), primaryDocument |-> "a2.htm",
                    form |-> "8-K", filingDate |-> "2024-02-03"] >>]

\* A co-registrant of filing A1, with one record that has no accession number.
FileB ==
    [name_digits |-> CikB, json_ok |-> TRUE, entityName |-> "", sic |-> "6189",
     recent |-> << [accessionNumber |-> Acc(1), primaryDocument |-> "b1.htm",
                    form |-> "10-K/A", filingDate |-> "2024-02-03"],
                   [accessionNumber |-> <<>>, primaryDocument |-> "b2.htm",
                    form |-> "8-K", filingDate |-> "2024-01-02"] >>]

\* A company that has filed nothing.
FileC ==
    [name_digits |-> CikC, json_ok |-> TRUE, entityName |-> "Cobalt", sic |-> "1000",
     recent |-> << >>]

\* A file that is not JSON.
FileX ==
    [name_digits |-> CikD, json_ok |-> FALSE, entityName |-> "", sic |-> "",
     recent |-> << >>]

\* CIK123.json: no ten-digit id in the name.
FileN ==
    [name_digits |-> <<1, 2, 3>>, json_ok |-> TRUE, entityName |-> "Nameless",
     sic |-> "2000",
     recent |-> << [accessionNumber |-> Acc(3), primaryDocument |-> "n1.htm",
                    form |-> "10-K", filingDate |-> "2024-01-02"] >>]

AllFiles == {FileA, FileB, FileC, FileX, FileN}

\* The lists of distinct files with at most n members.
FileLists(files, n) ==
    {l \in UNION {[1..k -> files] : k \in 0..n} :
        \A i, j \in 1..Len(l) : i /= j => l[i] /= l[j]}

-----------------------------------------------------------------------------
(* JSONParser and the parsing worker *)

\* re.match(r'CIK(\d{10})\.json', file_path.name)
cik_match(file) == Len(file.name_digits) = 10

\* One index of the parallel arrays of filings.recent.
RecordOk(e) ==
    /\ e.accessionNumber /= <<>>
    /\ e.primaryDocument /= ""
    /\ e.form /= ""
    /\ e.filingDate /= ""
    /\ e.filingDate \in ValidDates

FilingOfRecord(cik, e) ==
    [cik |-> cik, form_type |-> e.form, filing_date |-> e.filingDate,
     accession_number |-> e.accessionNumber,
     primary_document_filename |-> e.primaryDocument]

RECURSIVE ParseRecent(_, _)
ParseRecent(cik, recent) ==
    IF recent = <<>>
    THEN [filings |-> <<>>, parse_errors |-> 0]
    ELSE LET rest == ParseRecent(cik, Tail(recent))
         IN  IF RecordOk(Head(recent))
             THEN [filings |-> <<FilingOfRecord(cik, Head(recent))>> \o rest.filings,
                   parse_errors |-> rest.parse_errors]
             ELSE [filings |-> rest.filings,
                   parse_errors |-> rest.parse_errors + 1]

\* JSONParser.parse: raises ParsingError for a name without an id and
\* JSONParsingError for invalid JSON, else returns
\* (company_data, filings_data, parse_errors).
JSONParserParse(file) ==
    IF ~cik_match(file) \/ ~file.json_ok
    THEN [raises |-> TRUE, company |-> <<>>, filings |-> <<>>, parse_errors |-> 0]
    ELSE LET cik == file.name_digits
             r == ParseRecent(cik, file.recent)
         IN  [raises |-> FALSE,
              company |-> << [cik |-> cik,
                              name |-> IF file.entityName /= ""
                                       THEN file.entityName ELSE "Company CIK",
                              sic |-> file.sic] >>,
              filings |-> r.filings,
              parse_errors |-> r.parse_errors]

\* _parse_cik_json_worker: a file that fails to parse yields (None, [], 1).
parse_cik_json_worker(file) ==
    LET r == JSONParserParse(file)
    IN  IF r.raises
        THEN [raises |-> FALSE, company |-> <<>>, filings |-> <<>>, parse_errors |-> 1]
        ELSE r

-----------------------------------------------------------------------------
(* The store: tables companies and filings *)

CiksOf(rows) == {r.cik : r \in rows}
AccessionsOf(table) == {table[i].accession_number : i \in 1..Len(table)}

\* Python dict assignment d[v[k]] = v on a dict kept as the list of its
\* values in insertion order.
DictPut(d, v, k) ==
    IF \E i \in 1..Len(d) : d[i][k] = v[k]
    THEN [i \in 1..Len(d) |-> IF d[i][k] = v[k] THEN v ELSE d[i]]
    ELSE Append(d, v)

\* {v[k]: v for v in list}, as list(d.values()).
RECURSIVE DictOf(_, _)
DictOf(list, k) ==
    IF list = <<>> THEN <<>>
    ELSE DictPut(DictOf(SubSeq(list, 1, Len(list) - 1), k), list[Len(list)], k)

\* The filings table without the constraint.
FilingAccessionNotUnique == FALSE

\* Filing.accession_number is declared unique=True.
FilingAccessionUnique == TRUE

\* INSERT without the constraint biting: every row of the batch is appended.
InsertAppendRows(table, batch, parents, fk) ==
    [rows |-> table \o batch, rowcount |-> Len(batch)]

\* INSERT ... ON DUPLICATE KEY UPDATE on filings: a duplicate overwrites.
RECURSIVE InsertReplaceRows(_, _, _, _)
InsertReplaceRows(table, batch, parents, fk) ==
    IF batch = <<>>
    THEN [rows |-> table, rowcount |-> 0]
    ELSE LET r == Head(batch)
             rest == InsertReplaceRows(DictPut(table, r, "accession_number"),
                                       Tail(batch), parents, fk)
         IN  [rows |-> rest.rows, rowcount |-> rest.rowcount + 1]

\* Filing.cik is a String(10) column: under IGNORE a longer value is cut to
\* the column's width, with a warning.
ColumnCik(cik) == IF Len(cik) > 10 THEN SubSeq(cik, 1, 10) ELSE cik

\* Filing.cik is a foreign key to companies.cik.
FilingCikReferenced(r, parents) == r.cik \in CiksOf(parents)

\* mysql_insert(Filing).values(batch).prefix_with("IGNORE"): each row of the
\* batch is inserted unless its accession number is already in the table (or
\* earlier in the batch) or its cik has no parent row; IGNORE turns both into
\* warnings. rowcount counts the rows inserted.
RECURSIVE InsertIgnoreRows(_, _, _, _)
InsertIgnoreRows(table, batch, parents, fk) ==
    IF batch = <<>>
    THEN [rows |-> table, rowcount |-> 0]
    ELSE LET r == [Head(batch) EXCEPT !.cik = ColumnCik(@)]
             dup == FilingAccessionUnique /\ r.accession_number \in AccessionsOf(table)
             orphan == fk /\ ~FilingCikReferenced(r, parents)
             skip == dup \/ orphan
             rest == InsertIgnoreRows(IF skip THEN table ELSE Append(table, r),
                                      Tail(batch), parents, fk)
         IN  [rows |-> rest.rows,
              rowcount |-> rest.rowcount + (IF skip THEN 0 ELSE 1)]

\* FilingRepository.bulk_insert_ignore: one transaction; a rejection by the
\* store rolls back and raises DatabaseError.
bulk_insert_ignore(table, batch, parents, fk, fault) ==
    IF fault
    THEN [rows |-> table, count |-> 0, raises |-> TRUE]
    ELSE LET r == InsertIgnoreRows(table, batch, parents, fk)
         IN  [rows |-> r.rows, count |-> r.rowcount, raises |-> FALSE]

\* INSERT IGNORE on companies, row by row: a row whose cik is there is left.
RECURSIVE UpsertRowsIgnore(_, _)
UpsertRowsIgnore(table, batch) ==
    IF batch = <<>> THEN table
    ELSE UpsertRowsIgnore(IF Head(batch).cik \in CiksOf(table) THEN table
                          ELSE table \cup {Head(batch)}, Tail(batch))

\* INSERT ... ON DUPLICATE KEY UPDATE on companies, row by row.
RECURSIVE UpsertRows(_, _)
UpsertRows(table, batch) ==
    IF batch = <<>> THEN table
    ELSE UpsertRows({r \in table : r.cik /= Head(batch).cik} \cup {Head(batch)},
                    Tail(batch))

\* CompanyRepository.bulk_upsert: mappings without a cik are dropped, the rest
\* go in one statement inside get_session, which commits, or rolls back and
\* raises DatabaseError.
bulk_upsert(table, company_mappings, fault) ==
    LET valid_mappings == SelectSeq(company_mappings, LAMBDA m : m.cik /= <<>>)
    IN  IF valid_mappings = <<>>
        THEN [rows |-> table, raises |-> FALSE]
        ELSE IF fault
             THEN [rows |-> table, raises |-> TRUE]
             ELSE [rows |-> UpsertRows(table, valid_mappings), raises |-> FALSE]

-----------------------------------------------------------------------------
(* run_bulk_process and _ingest_bulk_json_data *)

Min(a, b) == IF a < b THEN a ELSE b

\* num_chunks = (total_files + chunk_size - 1) // chunk_size
num_chunks(total_files, chunk_size) == (total_files + chunk_size - 1) \div chunk_size

\* A chunk cut down to its first file.
file_chunk_first(all_json_files, i, chunk_size) ==
    SubSeq(all_json_files, i * chunk_size + 1, i * chunk_size + 1)

\* file_chunk = all_json_files[start_index:end_index]
file_chunk(all_json_files, i, chunk_size) ==
    SubSeq(all_json_files, i * chunk_size + 1,
           Min((i + 1) * chunk_size, Len(all_json_files)))

\* The aggregation loop over the workers' results.
RECURSIVE Aggregate(_)
Aggregate(results) ==
    IF results = <<>>
    THEN [companies |-> <<>>, filings |-> <<>>, parse_errors |-> 0]
    ELSE LET rest == Aggregate(SubSeq(results, 1, Len(results) - 1))
             r == results[Len(results)]
         IN  [companies |-> IF r.company /= <<>> /\ r.company[1].cik /= <<>>
                            THEN DictPut(rest.companies, r.company[1], "cik")
                            ELSE rest.companies,
              filings |-> rest.filings \o r.filings,
              parse_errors |-> rest.parse_errors + r.parse_errors]

\* A store rejection that the loop survives.
PcAfterRejectContinue == "bulk_cleanup"

\* except DatabaseError: overall_success = False; break
PcAfterReject == "bulk_return"

\* A run starts: nothing of the previous run's locals is left.
BeginRun(o, in) ==
    /\ op = "none"
    /\ pc = "idle"
    /\ op' = o
    /\ input' = in
    /\ runs' = runs + 1
    /\ rejected' = FALSE
    /\ UNCHANGED <<fnVars, docVars, archiveVars, prev, pacerVars, foreign_key_checks, edgar>>

\* run_bulk_process up to the first chunk: download and extraction (prep_ok),
\* the listing of the JSON files, and the early return for an empty directory.
StartBulk(files, chunk_size, prep_ok) ==
    /\ BeginRun("bulk", [files |-> files, chunk_size |-> chunk_size])
    /\ faulted' = ~prep_ok
    /\ raised' = "none"
    /\ IF ~prep_ok
       THEN pc' = "done" /\ result' = "False" /\ overall_success' = FALSE
       ELSE IF files = <<>>
            THEN pc' = "done" /\ result' = "True" /\ overall_success' = TRUE
            ELSE pc' = "bulk_parse" /\ result' = "none" /\ overall_success' = TRUE
    /\ chunk_index' = 0
    /\ chunk_company_data' = <<>>
    /\ chunk_filings_data' = <<>>
    /\ total_parse_errors' = 0
    /\ company_list_bound' = FALSE
    /\ final_filings_bound' = FALSE
    /\ files_parsed' = 0
    /\ inserted_count' = <<>>
    /\ insert_calls' = 0
    /\ UNCHANGED <<companies, filings, incVars>>

\* One chunk through the pool of workers and the aggregation loop.
BulkParseChunk ==
    /\ pc = "bulk_parse"
    /\ LET chunk == file_chunk(input.files, chunk_index, input.chunk_size)
           results == [i \in 1..Len(chunk) |-> parse_cik_json_worker(chunk[i])]
           agg == Aggregate(results)
       IN  /\ chunk_company_data' = agg.companies
           /\ chunk_filings_data' = agg.filings
           /\ total_parse_errors' = total_parse_errors + agg.parse_errors
           /\ files_parsed' = files_parsed + Len(chunk)
           /\ IF \E i \in 1..Len(results) : results[i].raises
              THEN \* the exception leaves starmap: except Exception ... break
                   /\ overall_success' = FALSE
                   /\ raised' = "ParsingError"
                   /\ pc' = "bulk_return"
              ELSE /\ UNCHANGED <<overall_success, raised>>
                   /\ pc' = "bulk_upsert"
    /\ UNCHANGED <<fnVars, docVars, archiveVars, pacerVars, storeVars, op, input, result, runs, faulted, prev,
                   chunk_index, company_list_bound, final_filings_bound, rejected,
                   inserted_count, insert_calls, incVars>>

\* if chunk_company_data: ... self.company_repo.bulk_upsert(company_list_chunk)
BulkUpsertChunk(fault) ==
    /\ pc = "bulk_upsert"
    /\ IF chunk_company_data = <<>>
       THEN /\ ~fault
            /\ pc' = "bulk_insert"
            /\ UNCHANGED <<companies, company_list_bound, overall_success,
                           rejected, faulted>>
       ELSE LET r == bulk_upsert(companies, chunk_company_data, fault)
            IN  /\ company_list_bound' = TRUE
                /\ companies' = r.rows
                /\ IF r.raises
                   THEN /\ overall_success' = FALSE
                        /\ rejected' = TRUE
                        /\ faulted' = TRUE
                        /\ pc' = PcAfterReject
                   ELSE /\ pc' = "bulk_insert"
                        /\ UNCHANGED <<overall_success, rejected, faulted>>
    /\ UNCHANGED <<fnVars, docVars, archiveVars, pacerVars, filings, foreign_key_checks, edgar, op, input,
                   result, raised, runs, prev, chunk_index, chunk_company_data,
                   chunk_filings_data, total_parse_errors, final_filings_bound,
                   files_parsed, inserted_count, insert_calls, incVars>>

\* if chunk_filings_data: the chunk's filings are de-duplicated by accession
\* number and handed to self.filing_repo.bulk_insert_ignore.
BulkInsertChunk(fault) ==
    /\ pc = "bulk_insert"
    /\ IF chunk_filings_data = <<>>
       THEN /\ ~fault
            /\ pc' = "bulk_cleanup"
            /\ UNCHANGED <<filings, final_filings_bound, overall_success, rejected,
                           faulted, inserted_count, insert_calls>>
       ELSE LET final_filings_to_insert_chunk ==
                    DictOf(chunk_filings_data, "accession_number")
                r == bulk_insert_ignore(filings, final_filings_to_insert_chunk,
                                        companies, foreign_key_checks, fault)
            IN  /\ final_filings_bound' = TRUE
                /\ filings' = r.rows
                /\ insert_calls' = insert_calls + 1
                /\ IF r.raises
                   THEN /\ overall_success' = FALSE
                        /\ rejected' = TRUE
                        /\ faulted' = TRUE
                        /\ pc' = PcAfterReject
                        /\ inserted_count' = <<>>
                   ELSE /\ inserted_count' = <<r.count>>
                        /\ pc' = "bulk_cleanup"
                        /\ UNCHANGED <<overall_success, rejected, faulted>>
    /\ UNCHANGED <<fnVars, docVars, archiveVars, pacerVars, companies, foreign_key_checks, edgar, op, input,
                   result, raised, runs, prev, chunk_index, chunk_company_data,
                   chunk_filings_data, total_parse_errors, company_list_bound,
                   files_parsed, incVars>>

\* The del statements that end each pass of the loop. del of a name that was
\* never bound raises UnboundLocalError, which leaves _ingest_bulk_json_data
\* and is caught by run_bulk_process.
BulkCleanup ==
    /\ pc = "bulk_cleanup"
    /\ IF final_filings_bound /\ company_list_bound
       THEN /\ chunk_index' = chunk_index + 1
            \* if not overall_success: break
            /\ pc' = IF /\ overall_success
                        /\ chunk_index + 1 < num_chunks(Len(input.files),
                                                        input.chunk_size)
                     THEN "bulk_parse" ELSE "bulk_return"
            /\ chunk_company_data' = <<>>
            /\ chunk_filings_data' = <<>>
            /\ company_list_bound' = FALSE
            /\ final_filings_bound' = FALSE
            /\ UNCHANGED <<overall_success, raised>>
       ELSE /\ raised' = "UnboundLocalError"
            /\ overall_success' = FALSE
            /\ pc' = "bulk_return"
            /\ UNCHANGED <<chunk_index, chunk_company_data, chunk_filings_data,
                           company_list_bound, final_filings_bound>>
    /\ UNCHANGED <<fnVars, docVars, archiveVars, pacerVars, storeVars, op, input, result, runs, faulted, prev,
                   total_parse_errors, files_parsed, rejected, inserted_count,
                   insert_calls, incVars>>

\* return overall_success, handed on by run_bulk_process.
BulkReturn ==
    /\ pc = "bulk_return"
    /\ result' = IF overall_success THEN "True" ELSE "False"
    /\ pc' = "done"
    /\ UNCHANGED <<fnVars, docVars, archiveVars, pacerVars, storeVars, op, input, raised, runs, faulted, prev,
                   bulkVars, incVars>>

\* The run is over; what it read and what it left behind are remembered.
FinishRun ==
    /\ pc = "done"
    /\ prev' = [op |-> op, input |-> input, companies |-> companies,
                filings |-> filings, faulted |-> faulted, result |-> result,
                raised |-> raised]
    /\ op' = "none"
    /\ pc' = "idle"
    /\ input' = <<>>
    /\ result' = "none"
    /\ faulted' = FALSE
    /\ chunk_index' = 0
    /\ chunk_company_data' = <<>>
    /\ chunk_filings_data' = <<>>
    /\ total_parse_errors' = 0
    /\ overall_success' = TRUE
    /\ company_list_bound' = FALSE
    /\ final_filings_bound' = FALSE
    /\ files_parsed' = 0
    /\ inserted_count' = <<>>
    /\ insert_calls' = 0
    /\ date_index' = 0
    /\ all_filings_from_indices' = <<>>
    /\ ciks_in_recent_filings' = {}
    /\ companies_to_upsert' = <<>>
    /\ api_fetch_errors' = 0
    /\ fetch_log' = <<>>
    /\ index_log' = <<>>
    /\ raised' = "none"
    /\ rejected' = FALSE
    /\ UNCHANGED <<fnVars, docVars, archiveVars, pacerVars, storeVars, runs>>

\* A single bulk run into an empty store.
BulkInit ==
    /\ now = 0
    /\ PacerAtRest
    /\ foreign_key_checks \in BOOLEAN
    /\ edgar = NoEdgar
    /\ IngestAtRest
    /\ disk = {}
    /\ DocAtRest
    /\ ArchiveAtRest
    /\ FnAtRest

BulkNext ==
    \/ \E files \in FileLists(AllFiles, MaxFiles), chunk_size \in 1..MaxChunkSize,
          prep_ok \in BOOLEAN :
          runs = 0 /\ StartBulk(files, chunk_size, prep_ok)
    \/ BulkParseChunk
    \/ \E fault \in BOOLEAN : BulkUpsertChunk(fault)
    \/ \E fault \in BOOLEAN : BulkInsertChunk(fault)
    \/ BulkCleanup
    \/ BulkReturn
    \/ FinishRun

SpecBulk == BulkInit /\ [][BulkNext]_vars

-----------------------------------------------------------------------------
(* The daily and quarterly index files, and IndexParser *)

\* The Filename column of an index line: the accession number with dashes if
\* the path has one, the longest run of digits in it otherwise, and the part
\* after the last '/'.
Line1 ==
    [cik |-> <<1>>, form |-> "10-K", date |-> "2024-01-02",
     path |-> [dashed |-> Acc(1), run |-> <<1>>, file |-> "acc1.txt"]]
Line2 ==
    [cik |-> CikA, form |-> "8-k", date |-> "2024-02-03",
     path |-> [dashed |-> <<>>, run |-> Acc(4) \o <<0, 0>>, file |-> "acc4.txt"]]
Line3 ==
    [cik |-> <<2>>, form |-> "10-Q", date |-> "2024-02-03",
     path |-> [dashed |-> Acc(5), run |-> <<2>>, file |-> "acc5.txt"]]
Line1Dup ==
    [cik |-> <<3>>, form |-> "10-K/A", date |-> "2024-02-03",
     path |-> [dashed |-> Acc(1), run |-> <<3>>, file |-> "acc1a.txt"]]
LineBadCik ==
    [cik |-> <<1, -1>>, form |-> "10-K", date |-> "2024-01-02",
     path |-> [dashed |-> Acc(6), run |-> <<1>>, file |-> "acc6.txt"]]
LineLongCik ==
    [cik |-> <<1, 0, 0, 0, 0, 0, 0, 0, 0, 0, 1>>, form |-> "10-K",
     date |-> "2024-01-02",
     path |-> [dashed |-> Acc(7), run |-> <<1>>, file |-> "acc7.txt"]]
LineNoAccession ==
    [cik |-> <<2>>, form |-> "10-K", date |-> "2024-01-02",
     path |-> [dashed |-> <<>>, run |-> <<2>>, file |-> "index.htm"]]

IdxOne == [status |-> "ok", header_ok |-> TRUE, lines |-> <<Line1, Line2>>]
IdxTwo ==
    [status |-> "ok", header_ok |-> TRUE,
     lines |-> <<Line3, Line1Dup, LineBadCik, LineNoAccession>>]
IdxNoHeader == [status |-> "ok", header_ok |-> FALSE, lines |-> <<Line3>>]
IdxLongCik == [status |-> "ok", header_ok |-> TRUE, lines |-> <<LineLongCik>>]
Idx404 == [status |-> "404", header_ok |-> FALSE, lines |-> <<>>]

\* str.isdigit(): characters are digits 0..9, anything else is written -1.
isdigit(str) == str /= <<>> /\ \A i \in 1..Len(str) : str[i] \in 0..9

\* A str.upper() that leaves the form type as it is written.
upper_unchanged(form) == form

\* str.upper() on the form types of the index lines.
upper(form) ==
    CASE form = "8-k" -> "8-K"
      [] form = "10-k" -> "10-K"
      [] OTHER -> form

\* IndexParser._extract_accession_number: the dashed form if re.search finds
\* one, else the first eighteen digits of a run of eighteen or more, else None.
extract_accession_number(path) ==
    IF path.dashed /= <<>> THEN path.dashed
    ELSE IF Len(path.run) >= 18 THEN SubSeq(path.run, 1, 18)
    ELSE IF Len(path.run) >= 20 THEN SubSeq(path.run, 1, 18)
    ELSE <<>>

\* A form filter: None, or a set of upper-case form types.
NoForms == [given |-> FALSE, forms |-> {}]
TenK == [given |-> TRUE, forms |-> {"10-K", "10-K/A"}]

\* The lines of an index after its header, one by one.
RECURSIVE ParseLines(_, _)
ParseLines(lines, target_forms) ==
    IF lines = <<>> THEN <<>>
    ELSE LET l == Head(lines)
             form_type == upper(l.form)
             accession_number == extract_accession_number(l.path)
             rest == ParseLines(Tail(lines), target_forms)
         IN  IF \/ ~isdigit(l.cik)
                \/ target_forms.given /\ form_type \notin target_forms.forms
                \/ l.date \notin ValidDates
                \/ accession_number = <<>>
             THEN rest
             ELSE << [cik |-> l.cik, form_type |-> form_type,
                      filing_date |-> l.date,
                      accession_number |-> accession_number,
                      primary_document_filename |-> l.path.file] >> \o rest

\* IndexParser.parse: IndexParsingError if the header separator is never
\* found, else the filings of the lines that pass.
IndexParserParse(content, target_forms) ==
    IF ~content.header_ok
    THEN [raises |-> TRUE, filings |-> <<>>]
    ELSE [raises |-> FALSE, filings |-> ParseLines(content.lines, target_forms)]

\* for filing_dict in parsed_filings: all_filings[accession_number] = filing_dict
RECURSIVE DictUpdate(_, _, _)
DictUpdate(d, list, k) ==
    IF list = <<>> THEN d
    ELSE DictUpdate(DictPut(d, Head(list), k), Tail(list), k)

\* The raw lines of an index source, before the header loop has classified
\* them: descriptive text, the header line in either spelling, a dashed
\* line, an empty line, a line that does not split into five parts, and a
\* data row.
TextLine == [kind |-> "text", row |-> <<>>]
HeaderLine == [kind |-> "header_filename", row |-> <<>>]
HeaderLine2 == [kind |-> "header_file_name", row |-> <<>>]
SeparatorLine == [kind |-> "separator", row |-> <<>>]
EmptyLine == [kind |-> "empty", row |-> <<>>]
MalformedLine == [kind |-> "malformed", row |-> <<>>]
RowLine(l) == [kind |-> "row", row |-> <<l>>]

\* line_content == 'CIK|Company Name|Form Type|Date Filed|Filename' or the
\* same with 'File Name'.
is_header_line(line) == line.kind \in {"header_filename", "header_file_name"}

\* The header line read as a data row once the separator has been passed:
\* five parts, the first of them the letters CIK.
HeaderAsRow ==
    [cik |-> <<-1, -1, -1>>, form |-> "Form Type", date |-> "Date Filed",
     path |-> [dashed |-> <<>>, run |-> <<>>, file |-> "Filename"]]

\* A variant of the loop in which a dashed line ends the header even when no
\* header line came before it.
RECURSIVE ScanSourceAnySeparator(_, _, _)
ScanSourceAnySeparator(source, header_found, header_skipped) ==
    IF source = <<>> THEN [header_skipped |-> header_skipped, lines |-> <<>>]
    ELSE LET line == Head(source)
         IN  IF ~header_skipped
             THEN ScanSourceAnySeparator(Tail(source), header_found,
                                         line.kind = "separator")
             ELSE LET rest == ScanSourceAnySeparator(Tail(source),
                                                     header_found, TRUE)
                  IN  IF line.kind = "row"
                      THEN [rest EXCEPT !.lines = line.row \o @]
                      ELSE rest

\* The loop of IndexParser.parse over the lines of the source: every line
\* is skipped until a line starting with '---' comes after a header line;
\* from then on empty lines and lines without five parts are skipped and
\* the others are split into columns.
RECURSIVE ScanSource(_, _, _)
ScanSource(source, header_found, header_skipped) ==
    IF source = <<>> THEN [header_skipped |-> header_skipped, lines |-> <<>>]
    ELSE LET line == Head(source)
         IN  IF ~header_skipped
             THEN IF is_header_line(line)
                  THEN ScanSource(Tail(source), TRUE, FALSE)
                  ELSE IF header_found /\ line.kind = "separator"
                  THEN ScanSource(Tail(source), header_found, TRUE)
                  ELSE ScanSource(Tail(source), header_found, FALSE)
             ELSE LET rest == ScanSource(Tail(source), header_found, TRUE)
                  IN  IF line.kind = "empty" THEN rest
                      ELSE IF line.kind \in {"text", "separator", "malformed"}
                      THEN rest
                      ELSE IF is_header_line(line)
                      THEN [rest EXCEPT !.lines = <<HeaderAsRow>> \o @]
                      ELSE [rest EXCEPT !.lines = line.row \o @]

\* IndexParser.parse on the raw text of a source.
IndexParserParseSource(source, target_forms) ==
    LET scanned == ScanSource(source, FALSE, FALSE)
    IN  IndexParserParse([status |-> "ok",
                          header_ok |-> scanned.header_skipped,
                          lines |-> scanned.lines], target_forms)

-----------------------------------------------------------------------------
(* _fetch_company_data_from_api *)

\* retries = 2
retries == 2

Responses == {"ok", "404", "timeout", "error"}

\* What the API serves for a CIK.
ApiDetails(cik) == [cik |-> cik, name |-> "Api Name", sic |-> "9999"]

Absent(why, made, slept) ==
    [raises |-> "none", outcome |-> why, details |-> <<>>, requests |-> made,
     sleeps |-> slept]

\* time.sleep(1.5 ** attempt), as the fraction 3^attempt / 2^attempt
Backoff(attempt) == <<3 ^ attempt, 2 ^ attempt>>

\* for attempt in range(retries + 1): ...
RECURSIVE FetchAttempt(_, _, _, _)
FetchAttempt(cik, responses, attempt, sleeps) ==
    IF attempt > retries THEN Absent("exhausted", attempt, sleeps)
    ELSE LET response == responses[attempt + 1]
         IN  CASE response = "ok" ->
                    [raises |-> "none", outcome |-> "ok",
                     details |-> <<ApiDetails(cik)>>,
                     requests |-> attempt + 1, sleeps |-> sleeps]
               [] response = "404" -> Absent("not_found", attempt + 1, sleeps)
               [] OTHER ->
                    IF attempt < retries
                    THEN FetchAttempt(cik, responses, attempt + 1,
                                      Append(sleeps, Backoff(attempt)))
                    ELSE Absent("exhausted", attempt + 1, sleeps)

\* The whole helper: the format check, the URL built from
\* self.submissions_api_base, and the retry loop.
fetch_company_data_from_api(cik, responses) ==
    IF ~isdigit(cik) \/ Len(cik) > 10
    THEN Absent("invalid", 0, <<>>)
    ELSE IF "submissions_api_base" \notin PipelineServiceAttrs
         THEN [raises |-> "AttributeError", outcome |-> "raised", details |-> <<>>,
               requests |-> 0, sleeps |-> <<>>]
         ELSE FetchAttempt(cik, responses, 0, <<>>)

-----------------------------------------------------------------------------
(* run_incremental_update *)

\* What becomes of a GET: the server serves what it has, or answers 403 or
\* 500, or the request times out, or the connection fails.
IndexResponses == {"served", "403", "500", "timeout", "network"}

HttpAnswer(response, index) ==
    IF response = "served"
    THEN IF index.status = "ok" THEN "200" ELSE "404"
    ELSE response

\* AbstractDownloader._make_request: the response, or the exception raised.
make_request(answer) ==
    CASE answer = "200" -> "Response"
      [] answer = "timeout" -> "RequestTimeoutError"
      [] answer = "404" -> "NotFoundError"
      [] OTHER -> "DownloadError"

\* A downloader that hands every failure on, a missing index included.
IncrementalDownloaderDownloadStrict(answer) ==
    LET r == make_request(answer)
    IN  IF r = "Response" THEN [raises |-> "none", content |-> TRUE]
        ELSE [raises |-> IF r = "NotFoundError" THEN "DownloadError" ELSE r,
              content |-> FALSE]

\* IncrementalDownloader.download: the content, None for NotFoundError, and
\* RequestTimeoutError and DownloadError raised again.
IncrementalDownloaderDownload(answer) ==
    LET r == make_request(answer)
    IN  CASE r = "Response" -> [raises |-> "none", content |-> TRUE]
          [] r = "NotFoundError" -> [raises |-> "none", content |-> FALSE]
          [] OTHER -> [raises |-> r, content |-> FALSE]

\* IncrementalDownloader.download_quarterly_index_content: the same handlers.
download_quarterly_index_content(answer) ==
    LET r == make_request(answer)
    IN  CASE r = "Response" -> [raises |-> "none", content |-> TRUE]
          [] r = "NotFoundError" -> [raises |-> "none", content |-> FALSE]
          [] OTHER -> [raises |-> r, content |-> FALSE]

\* The daily index of the date days_ago - 1 days before today; EDGAR answers
\* 404 for a date it has no index for.
DailyIndex(days_ago) ==
    IF days_ago \in DOMAIN edgar.daily THEN edgar.daily[days_ago] ELSE Idx404

\* The first steps of the run: the list of dates, whose min() is logged.
StartIncremental(days_to_check) ==
    /\ BeginRun("incremental", [days_to_check |-> days_to_check])
    /\ faulted' = FALSE
    /\ overall_success' = TRUE
    /\ IF days_to_check = 0
       THEN raised' = "ValueError" /\ pc' = "done"
       ELSE raised' = "none" /\ pc' = "inc_date"
    /\ result' = "none"
    /\ date_index' = 0
    /\ all_filings_from_indices' = <<>>
    /\ ciks_in_recent_filings' = {}
    /\ companies_to_upsert' = <<>>
    /\ api_fetch_errors' = 0
    /\ fetch_log' = <<>>
    /\ index_log' = <<>>
    /\ inserted_count' = <<>>
    /\ insert_calls' = 0
    /\ UNCHANGED <<companies, filings, chunk_index, chunk_company_data,
                   chunk_filings_data, total_parse_errors, company_list_bound,
                   final_filings_bound, files_parsed>>

\* One pass of the loop over sorted(dates_to_process): the oldest date first.
\* The date's index is downloaded and, if there is one, parsed and merged.
IncrementalDate(response) ==
    /\ pc = "inc_date"
    /\ LET days_ago == input.days_to_check - date_index
           index == DailyIndex(days_ago)
           answer == HttpAnswer(response, index)
           index_content == IncrementalDownloaderDownload(answer)
           parsed == IndexParserParse(index, NoForms)
           error == IF index_content.raises /= "none" THEN "download"
                    ELSE IF index_content.content /\ parsed.raises THEN "parse"
                    ELSE "none"
           parsed_filings == IF error = "none" /\ index_content.content
                             THEN parsed.filings ELSE <<>>
       IN  /\ index_log' = Append(index_log,
                                  [period |-> <<days_ago>>, answer |-> answer,
                                   error |-> error, filings |-> parsed_filings])
           /\ overall_success' = (overall_success /\ error = "none")
           /\ faulted' = (faulted \/ response /= "served")
           /\ all_filings_from_indices' =
                  DictUpdate(all_filings_from_indices, parsed_filings,
                             "accession_number")
    /\ date_index' = date_index + 1
    /\ pc' = IF date_index + 1 < input.days_to_check THEN "inc_date" ELSE "inc_insert"
    /\ UNCHANGED <<fnVars, docVars, archiveVars, pacerVars, storeVars, op, input, result, raised, runs, prev,
                   chunk_index, chunk_company_data, chunk_filings_data,
                   total_parse_errors, company_list_bound, final_filings_bound,
                   files_parsed, rejected, inserted_count, insert_calls,
                   ciks_in_recent_filings, companies_to_upsert, api_fetch_errors,
                   fetch_log>>

\* A rejected insert after which the run goes on to the companies.
PcAfterInsertRejectContinue == "inc_fetch"

\* except DatabaseError: return False
PcAfterInsertReject == "done"

\* Steps 3 and 4: the early return for an empty merge, the insert-ignore of
\* the merged filings, and the set of their CIKs.
IncrementalInsert(fault) ==
    /\ pc = "inc_insert"
    /\ IF all_filings_from_indices = <<>>
       THEN /\ ~fault
            /\ result' = "True"
            /\ pc' = "done"
            /\ UNCHANGED <<filings, rejected, faulted, inserted_count, insert_calls,
                           ciks_in_recent_filings>>
       ELSE LET r == bulk_insert_ignore(filings, all_filings_from_indices,
                                        companies, foreign_key_checks, fault)
                ciks == {all_filings_from_indices[i].cik :
                            i \in 1..Len(all_filings_from_indices)}
            IN  /\ filings' = r.rows
                /\ insert_calls' = insert_calls + 1
                /\ IF r.raises
                   THEN /\ result' = "False"
                        /\ pc' = PcAfterInsertReject
                        /\ rejected' = TRUE
                        /\ faulted' = TRUE
                        /\ inserted_count' = <<>>
                        /\ UNCHANGED ciks_in_recent_filings
                   ELSE /\ inserted_count' = <<r.count>>
                        /\ ciks_in_recent_filings' = ciks
                        /\ IF ciks = {}
                           THEN /\ pc' = "done"
                                /\ result' = IF overall_success THEN "True" ELSE "False"
                           ELSE /\ pc' = "inc_fetch"
                                /\ UNCHANGED result
                        /\ UNCHANGED <<rejected, faulted>>
    /\ UNCHANGED <<fnVars, docVars, archiveVars, pacerVars, companies, foreign_key_checks, edgar, op, input,
                   raised, runs, prev, chunk_index, chunk_company_data,
                   chunk_filings_data, total_parse_errors, overall_success,
                   company_list_bound, final_filings_bound, files_parsed,
                   date_index, all_filings_from_indices, companies_to_upsert,
                   api_fetch_errors, fetch_log, index_log>>

\* One pass of the loop of step 5. The loop runs over a set, so the CIKs come
\* in any order. An exception out of the helper leaves the run.
IncrementalFetch(cik, responses) ==
    /\ pc = "inc_fetch"
    /\ cik \in ciks_in_recent_filings
    /\ LET r == fetch_company_data_from_api(cik, responses)
       IN  /\ fetch_log' = Append(fetch_log, [cik |-> cik, raises |-> r.raises,
                                              outcome |-> r.outcome,
                                              details |-> r.details,
                                              requests |-> r.requests,
                                              sleeps |-> r.sleeps])
           /\ IF r.raises /= "none"
              THEN /\ raised' = r.raises
                   /\ pc' = "done"
                   /\ UNCHANGED <<ciks_in_recent_filings, companies_to_upsert,
                                  api_fetch_errors, overall_success, faulted>>
              ELSE /\ ciks_in_recent_filings' = ciks_in_recent_filings \ {cik}
                   /\ pc' = IF ciks_in_recent_filings = {cik}
                            THEN "inc_upsert" ELSE "inc_fetch"
                   /\ raised' = raised
                   /\ IF r.details /= <<>>
                      THEN /\ companies_to_upsert' =
                                  Append(companies_to_upsert, r.details[1])
                           /\ UNCHANGED <<api_fetch_errors, overall_success, faulted>>
                      ELSE /\ api_fetch_errors' = api_fetch_errors + 1
                           /\ overall_success' = FALSE
                           /\ faulted' = (faulted \/ r.requests > 0)
                           /\ UNCHANGED companies_to_upsert
    /\ UNCHANGED <<fnVars, docVars, archiveVars, pacerVars, storeVars, op, input, result, runs, prev, chunk_index,
                   chunk_company_data, chunk_filings_data, total_parse_errors,
                   company_list_bound, final_filings_bound, files_parsed, rejected,
                   inserted_count, insert_calls, date_index,
                   all_filings_from_indices, index_log>>

\* Step 6 and the return.
IncrementalUpsert(fault) ==
    /\ pc = "inc_upsert"
    /\ IF companies_to_upsert = <<>>
       THEN /\ ~fault
            /\ result' = IF overall_success THEN "True" ELSE "False"
            /\ UNCHANGED <<companies, rejected, faulted>>
       ELSE LET r == bulk_upsert(companies, companies_to_upsert, fault)
            IN  /\ companies' = r.rows
                /\ IF r.raises
                   THEN /\ result' = "False"
                        /\ rejected' = TRUE
                        /\ faulted' = TRUE
                   ELSE /\ result' = IF overall_success THEN "True" ELSE "False"
                        /\ UNCHANGED <<rejected, faulted>>
    /\ pc' = "done"
    /\ UNCHANGED <<fnVars, docVars, archiveVars, pacerVars, filings, foreign_key_checks, edgar, op, input, raised,
                   runs, prev, bulkVars_but_rejected, incVars>>

-----------------------------------------------------------------------------
(* run_historical_backfill, over one year *)

\* A year cut short of its last quarter.
QuartersThree == 1..3

\* for quarter in range(1, 5)
Quarters == 1..4

\* settings.pipeline.backfill_target_forms: None unless BACKFILL_TARGET_FORMS
\* is set.
backfill_target_forms == NoForms
BackfillSettings == {backfill_target_forms, TenK}

\* _forms_to_include = forms_to_include if forms_to_include is not None
\*                     else self.settings.pipeline.backfill_target_forms
EffectiveFormsToInclude(forms_to_include, setting) ==
    IF forms_to_include.given THEN forms_to_include ELSE setting

\* The years EDGAR has quarterly indices for.
Years == 2023..2024
LastYear == CHOOSE y \in Years : \A z \in Years : z <= y

\* The quarterly index of a year and quarter: the last year serves
\* edgar.quarterly, the years before it one index in their fourth quarter.
QuarterlyIndex(year, quarter) ==
    IF year = LastYear /\ quarter \in DOMAIN edgar.quarterly
    THEN edgar.quarterly[quarter]
    ELSE IF year \in Years /\ quarter = 4 THEN IdxOne
    ELSE Idx404

\* The passes of the two nested loops.
NumPeriods(start_year, end_year) ==
    IF end_year < start_year THEN 0
    ELSE (end_year - start_year + 1) * Cardinality(Quarters)

StartBackfill(start_year, end_year, forms_to_include) ==
    /\ \E setting \in BackfillSettings :
          BeginRun("backfill", [start_year |-> start_year, end_year |-> end_year,
                                forms_to_include |-> forms_to_include,
                                backfill_target_forms |-> setting])
    /\ faulted' = FALSE
    /\ overall_success' = TRUE
    /\ raised' = "none"
    /\ result' = "none"
    /\ pc' = IF NumPeriods(start_year, end_year) = 0
             THEN "backfill_return" ELSE "backfill_quarter"
    /\ date_index' = 0
    /\ inserted_count' = <<>>
    /\ insert_calls' = 0
    /\ index_log' = <<>>
    /\ UNCHANGED <<companies, filings, chunk_index, chunk_company_data,
                   chunk_filings_data, total_parse_errors, company_list_bound,
                   final_filings_bound, files_parsed, all_filings_from_indices,
                   ciks_in_recent_filings, companies_to_upsert, api_fetch_errors,
                   fetch_log>>

\* One quarter: download, parse with the caller's filter, insert-ignore.
BackfillQuarter(response, fault) ==
    /\ pc = "backfill_quarter"
    /\ LET year == input.start_year + (date_index \div Cardinality(Quarters))
           quarter == (date_index % Cardinality(Quarters)) + 1
           index == QuarterlyIndex(year, quarter)
           answer == HttpAnswer(response, index)
           qtr_content == download_quarterly_index_content(answer)
           \* target_forms=forms_to_include
           parsed == IndexParserParse(index, input.forms_to_include)
           qtr_filings_list == IF qtr_content.raises = "none" /\ qtr_content.content
                                  /\ ~parsed.raises
                               THEN parsed.filings ELSE <<>>
           r == bulk_insert_ignore(filings, qtr_filings_list, companies,
                                   foreign_key_checks, fault)
           error == IF qtr_content.raises /= "none" THEN "download"
                    ELSE IF qtr_content.content /\ parsed.raises THEN "parse"
                    ELSE IF qtr_filings_list /= <<>> /\ r.raises THEN "store"
                    ELSE "none"
       IN  /\ index_log' = Append(index_log,
                                  [period |-> <<year, quarter>>, answer |-> answer,
                                   error |-> error, filings |-> qtr_filings_list])
           /\ overall_success' = (overall_success /\ error = "none")
           /\ faulted' = (faulted \/ response /= "served" \/ error = "store")
           /\ IF qtr_filings_list = <<>>
              THEN /\ ~fault
                   /\ UNCHANGED <<filings, rejected, inserted_count, insert_calls>>
              ELSE /\ filings' = r.rows
                   /\ insert_calls' = insert_calls + 1
                   /\ IF r.raises
                      THEN \* except DatabaseError: overall_success = False; continue
                           /\ rejected' = TRUE
                           /\ inserted_count' = <<>>
                      ELSE /\ inserted_count' = <<r.count>>
                           /\ UNCHANGED rejected
    /\ date_index' = date_index + 1
    /\ pc' = IF date_index + 1 < NumPeriods(input.start_year, input.end_year)
             THEN "backfill_quarter" ELSE "backfill_return"
    /\ UNCHANGED <<fnVars, docVars, archiveVars, pacerVars, companies, foreign_key_checks, edgar, op, input,
                   result, raised, runs, prev, chunk_index, chunk_company_data,
                   chunk_filings_data, total_parse_errors, company_list_bound,
                   final_filings_bound, files_parsed, all_filings_from_indices,
                   ciks_in_recent_filings, companies_to_upsert, api_fetch_errors,
                   fetch_log>>

\* return overall_success
BackfillReturn ==
    /\ pc = "backfill_return"
    /\ result' = IF overall_success THEN "True" ELSE "False"
    /\ pc' = "done"
    /\ UNCHANGED <<fnVars, docVars, archiveVars, pacerVars, storeVars, op, input, raised, runs, faulted, prev,
                   bulkVars, incVars>>

-----------------------------------------------------------------------------
(* Runs of the three modes, one after another, against one EDGAR *)

EdgarFiles == FileLists({FileA, FileB, FileX}, MaxEdgarFiles)
EdgarDaily ==
    {<<IdxOne, IdxTwo>>, <<Idx404, IdxOne>>, <<IdxNoHeader, IdxTwo>>,
     <<IdxLongCik, Idx404>>}
EdgarQuarterly == {<<IdxOne, Idx404, IdxTwo, IdxNoHeader>>}

Init ==
    /\ now = 0
    /\ PacerAtRest
    /\ foreign_key_checks \in BOOLEAN
    /\ edgar \in [files : EdgarFiles, daily : EdgarDaily, quarterly : EdgarQuarterly]
    /\ IngestAtRest
    /\ disk = {}
    /\ DocAtRest
    /\ ArchiveAtRest
    /\ FnAtRest

Next ==
    \/ \E chunk_size \in 1..MaxChunkSize, prep_ok \in BOOLEAN :
          runs < MaxRuns /\ StartBulk(edgar.files, chunk_size, prep_ok)
    \/ BulkParseChunk
    \/ \E fault \in BOOLEAN : BulkUpsertChunk(fault)
    \/ \E fault \in BOOLEAN : BulkInsertChunk(fault)
    \/ BulkCleanup
    \/ BulkReturn
    \/ \E days_to_check \in 0..MaxDays :
          runs < MaxRuns /\ StartIncremental(days_to_check)
    \/ \E response \in {"served", "500"} : IncrementalDate(response)
    \/ \E fault \in BOOLEAN : IncrementalInsert(fault)
    \/ \E cik \in ciks_in_recent_filings, responses \in [1..(retries + 1) -> Responses] :
          IncrementalFetch(cik, responses)
    \/ \E fault \in BOOLEAN : IncrementalUpsert(fault)
    \/ \E forms_to_include \in {NoForms, TenK} :
          runs < MaxRuns /\ StartBackfill(LastYear, LastYear, forms_to_include)
    \/ \E response \in {"served", "500"}, fault \in BOOLEAN :
          BackfillQuarter(response, fault)
    \/ BackfillReturn
    \/ FinishRun

Spec == Init /\ [][Next]_vars

\* A single incremental run, over one more day than EDGAR has indices for,
\* with every answer a GET can get.
IncrementalNext ==
    \/ \E days_to_check \in 0..(MaxDays + 1) :
          runs < 1 /\ StartIncremental(days_to_check)
    \/ \E response \in IndexResponses : IncrementalDate(response)
    \/ \E fault \in BOOLEAN : IncrementalInsert(fault)
    \/ \E cik \in ciks_in_recent_filings, responses \in [1..(retries + 1) -> Responses] :
          IncrementalFetch(cik, responses)
    \/ \E fault \in BOOLEAN : IncrementalUpsert(fault)
    \/ FinishRun

SpecIncremental == Init /\ [][IncrementalNext]_vars

\* A single backfill over every range of years, the empty ones included.
BackfillNext ==
    \/ \E start_year, end_year \in Years, forms_to_include \in {NoForms, TenK} :
          runs < 1 /\ StartBackfill(start_year, end_year, forms_to_include)
    \/ \E response \in {"served", "500", "timeout"}, fault \in BOOLEAN :
          BackfillQuarter(response, fault)
    \/ BackfillReturn
    \/ FinishRun

\* The bulk archive and the daily indices play no part in a backfill.
BackfillInit ==
    /\ Init
    /\ edgar.files = <<>>
    /\ edgar.daily = <<Idx404, IdxOne>>

SpecBackfill == BackfillInit /\ [][BackfillNext]_vars


-----------------------------------------------------------------------------
(* Properties of the RateLimiter *)

Abs(x) == IF x < 0 THEN -x ELSE x

\* C1 as stated: the instants at which any two calls of wait() return are at
\* least min_interval apart.
C1_ReturnsSpaced ==
    \A i, j \in 1..Len(returns) :
        i < j => returns[j] - returns[i] >= min_interval

\* C1 (amended): under concurrent callers, the instants at which any two calls
\* of wait() write last_request_time (their pass through the gate, made under
\* the lock) are at least min_interval apart, so the N-th call to complete
\* returns no less than (N-1)*min_interval after the first call began.
C1_PassesSpaced ==
    /\ \A i, j \in 1..Len(passes) :
           i < j => passes[j] - passes[i] >= (j - i) * min_interval
    /\ Len(returns) >= 1 =>
           returns[Len(returns)] - first_call >= (Len(returns) - 1) * min_interval

\* A call has returned, and right now one caller sleeps inside the lock while
\* another waits for it.
C1_Witness ==
    /\ Len(returns) >= 1
    /\ \E t, u \in Threads : tpc[t] = "sleeping" /\ tpc[u] = "acquire"

\* C2 as stated: any two outbound HTTP requests, whichever component or worker
\* thread issues them, are issued at least min_interval apart.
C2_RequestsSpaced ==
    \A i, j \in 1..Len(requests) :
        i /= j => Abs(requests[i].issued - requests[j].issued) >= min_interval

\* C2 (amended): every outbound HTTP request, whichever component or worker
\* thread issues it, is issued after its own pass through the one shared
\* RateLimiter, and the passes of any two requests are at least min_interval
\* apart.
C2_RequestPassesSpaced ==
    /\ \A i \in 1..Len(requests) : requests[i].passed <= requests[i].issued
    /\ \A i, j \in 1..Len(requests) :
           i /= j => Abs(requests[i].passed - requests[j].passed) >= min_interval

\* Requests of a main-thread component and of the download workers went out.
C2_Witness ==
    /\ Len(requests) >= 3
    /\ \E i, j \in 1..Len(requests) :
           /\ requests[i].component = "scanner"
           /\ requests[j].component = "document"

Range(seq) == {seq[i] : i \in 1..Len(seq)}

RECURSIVE SumParseErrors(_)
SumParseErrors(files) ==
    IF files = <<>> THEN 0
    ELSE parse_cik_json_worker(Head(files)).parse_errors + SumParseErrors(Tail(files))

BulkChunk(k) == file_chunk(input.files, k, input.chunk_size)
ChunkAggregate(k) ==
    Aggregate([i \in 1..Len(BulkChunk(k)) |-> parse_cik_json_worker(BulkChunk(k)[i])])
ChunkEntities(k) == Range(ChunkAggregate(k).companies)
ChunkFilings(k) == Range(DictOf(ChunkAggregate(k).filings, "accession_number"))
EarlierAccessions(k) ==
    UNION {{f.accession_number : f \in ChunkFilings(j)} : j \in 0..(k - 1)}

\* C6: in a bulk run that no store rejection and no download failure disturbed,
\* whatever the chunk size and whichever files are corrupt, the run's error count
\* is one per file that fails to parse (plus the record-level errors of the
\* others), a corrupt file leaves no entity, and the entity and the filings of
\* every file that parses are in the store when the run ends.
C6_CorruptFileCostsOneError ==
    (op = "bulk" /\ pc = "done" /\ ~faulted) =>
        /\ total_parse_errors = SumParseErrors(input.files)
        /\ \A i \in 1..Len(input.files) :
              LET file == input.files[i]
                  r == parse_cik_json_worker(file)
              IN  /\ JSONParserParse(file).raises =>
                         /\ r.parse_errors = 1
                         /\ file.name_digits \notin CiksOf(companies)
                  /\ r.company /= <<>> => r.company[1] \in companies
                  /\ \A j \in 1..Len(r.filings) :
                         r.filings[j].accession_number \in AccessionsOf(filings)

\* C7: in a bulk run, from the step in which the store rejects the entity upsert
\* or the filing insert of a chunk, the run goes straight to its return: no
\* further file is parsed, the store keeps exactly what the earlier writes
\* committed, and the value returned is False.
C7_RejectionHaltsBulk ==
    [][(op = "bulk" /\ rejected') =>
          /\ pc' \in {"bulk_return", "done"}
          /\ files_parsed' = files_parsed
          /\ companies' = companies
          /\ filings' = filings
          /\ chunk_index' = chunk_index
          /\ (pc' = "done" => result' = "False")]_vars

\* C7 witness: the second of three one-file chunks was rejected after the first
\* had committed its entity and filings, and the run has returned.
C7_Witness ==
    /\ op = "bulk" /\ pc = "done" /\ rejected
    /\ chunk_index = 1
    /\ files_parsed < Len(input.files)
    /\ companies /= {} /\ filings /= <<>>
    /\ result = "False"

\* C8: when a bulk run into an empty store has ended, every chunk has either
\* all of its de-duplicated entities and (not earlier seen) filings in the
\* store or none of them.
C8_ChunkAtomic ==
    (op = "bulk" /\ pc = "done") =>
        \A k \in 0..(num_chunks(Len(input.files), input.chunk_size) - 1) :
            LET E == ChunkEntities(k)
                F == {f \in ChunkFilings(k) :
                         f.accession_number \notin EarlierAccessions(k)}
            IN  \/ E \subseteq companies /\ F \subseteq Range(filings)
                \/ E \cap companies = {} /\ F \cap Range(filings) = {}

\* C3: whatever runs of the three modes have happened, in whatever order and
\* however their inputs overlap, no two rows of the filings table share an
\* accession number.
C3_AccessionUnique ==
    \A i, j \in 1..Len(filings) :
        i /= j => filings[i].accession_number /= filings[j].accession_number

\* C3 witness: a backfill after a bulk run has ended; both saw accession
\* number 1, and the table holds rows of both runs.
C3_Witness ==
    /\ runs = 2 /\ op = "backfill" /\ pc = "done" /\ prev.op = "bulk"
    /\ Acc(1) \in AccessionsOf(prev.filings)
    /\ Acc(1) \in AccessionsOf(ParseLines(edgar.quarterly[1].lines, NoForms))
    /\ Len(filings) > Len(prev.filings)

\* C4: no step changes or removes a stored filing row, and an insert-ignore
\* that the store does not reject returns exactly the number of rows it added:
\* a record whose accession number is already stored leaves the stored row's
\* entity id, form type, date and filename as they are, raises nothing and is
\* not counted.
C4_FirstWriterWins ==
    [][/\ Len(filings') >= Len(filings)
       /\ SubSeq(filings', 1, Len(filings)) = filings
       /\ (insert_calls' = insert_calls + 1 /\ inserted_count' /= <<>>) =>
              inserted_count'[1] = Len(filings') - Len(filings)]_vars

\* C4 witness: an incremental run has just insert-ignored a record whose
\* accession number an earlier run had stored with other field values, and
\* counted fewer rows than it offered.
C4_Witness ==
    /\ op = "incremental" /\ pc = "inc_fetch" /\ prev.op = "bulk"
    /\ inserted_count /= <<>>
    /\ inserted_count[1] < Len(all_filings_from_indices)
    /\ \E i \in 1..Len(all_filings_from_indices), j \in 1..Len(prev.filings) :
          /\ prev.filings[j].accession_number =
                 all_filings_from_indices[i].accession_number
          /\ prev.filings[j] /= all_filings_from_indices[i]
          /\ filings[j] = prev.filings[j]

\* C5: when a run has ended that repeats the previous run (same mode, same
\* arguments, same EDGAR) and neither was disturbed by a download failure or a
\* store rejection, companies and filings are exactly what the previous run
\* left.
C5_RerunLeavesStore ==
    (pc = "done" /\ prev.op = op /\ prev.input = input /\ ~prev.faulted /\ ~faulted)
        => (companies = prev.companies /\ filings = prev.filings)

\* C5 witness: the second of two equal bulk runs has ended, having offered
\* its companies and filings to a store that already held them.
C5_Witness ==
    /\ pc = "done" /\ op = "bulk" /\ prev.op = op /\ prev.input = input
    /\ ~prev.faulted /\ ~faulted
    /\ insert_calls >= 1
    /\ Len(filings) >= 2 /\ companies /= {}

\* C9: when an incremental run that merged at least one filing and met no store
\* rejection has ended, a fetch was attempted for every entity id of the merged
\* filings, every entity fetched is in the companies table, and if any fetch
\* came back absent the run returned False.
C9_FetchFailureDoesNotStop ==
    (op = "incremental" /\ pc = "done" /\ ~rejected
        /\ all_filings_from_indices /= <<>>) =>
        /\ \A f \in Range(all_filings_from_indices) :
              \E e \in Range(fetch_log) : e.cik = f.cik
        /\ \A e \in Range(fetch_log) :
              e.details /= <<>> => e.details[1] \in companies
        /\ (\E e \in Range(fetch_log) : e.details = <<>>) => result = "False"

\* C10: every call of the per-entity fetch for a well-formed id returns after
\* one to three requests, having slept 1.5^attempt after each failed attempt
\* but the last; a not-found answer and the exhaustion of the retries both
\* return absent, the latter after exactly three requests.
C10_FetchBounded ==
    \A e \in Range(fetch_log) :
        (isdigit(e.cik) /\ Len(e.cik) <= 10) =>
            /\ e.raises = "none"
            /\ e.requests \in 1..(retries + 1)
            /\ Len(e.sleeps) = e.requests - 1
            /\ \A k \in 1..Len(e.sleeps) : e.sleeps[k] = Backoff(k - 1)
            /\ e.outcome \in {"ok", "not_found", "exhausted"}
            /\ e.outcome = "ok" <=> e.details /= <<>>
            /\ e.outcome = "exhausted" => e.requests = retries + 1

-----------------------------------------------------------------------------
(* Document download: HTMLMetadataParser.find_primary_document,
   _prepare_download_task, download_filing_documents, DocumentDownloader *)

MaxFilings == 3

\* Cell texts and form types, as tuples of their characters.
Txt10K == <<"1", "0", "-", "K">>
Txt10KA == <<"1", "0", "-", "K", "/", "A">>
TxtEx99 == <<"E", "X", "-", "9", "9">>
TxtEx3 == <<"E", "X", "-", "3", ".", "1">>
TxtEx1122 == <<"E", "X", "-", "1", "1", "2", "2">>
TxtEx35 == <<"E", "X", "-", "3", "5", ".", "1">>
Txt10KALower == <<"1", "0", "-", "k", "/", "a">>

\* str.upper(), character by character.
upper_char(c) ==
    CASE c = "e" -> "E"
      [] c = "x" -> "X"
      [] c = "k" -> "K"
      [] c = "a" -> "A"
      [] OTHER -> c
text_upper(text) == [i \in 1..Len(text) |-> upper_char(text[i])]

\* str.startswith(prefix)
startswith(text, prefix) ==
    Len(text) >= Len(prefix) /\ SubSeq(text, 1, Len(prefix)) = prefix

\* Only the first of the prefixes.
abs_exhibit_prefixes_first == {<<"E", "X", "-", "3", "3">>}

\* abs_exhibit_prefixes = ('EX-33', 'EX-34', 'EX-35', 'EX-1122', 'EX-1123')
abs_exhibit_prefixes ==
    {<<"E", "X", "-", "3", "3">>, <<"E", "X", "-", "3", "4">>,
     <<"E", "X", "-", "3", "5">>, <<"E", "X", "-", "1", "1", "2", "2">>,
     <<"E", "X", "-", "1", "1", "2", "3">>}

\* File names, as <<stem, extension>>.
lower_ext(ext) == IF ext = ".HTM" THEN ".htm" ELSE ext
endswith_htm(doc_filename) == lower_ext(doc_filename[2]) \in {".htm", ".html"}

\* The target forms of a call: the default of --download-forms.
DocForms == {Txt10K, Txt10KA}

\* The rows of a document table: the header row has no td cells.
HeaderRow == [cells |-> 0, type |-> <<>>, filename |-> <<"", "">>]
Row(type, filename) == [cells |-> 5, type |-> type, filename |-> filename]
ShortRow == [cells |-> 2, type |-> <<>>, filename |-> <<"", "">>]

\* Index pages: status is what the server has, table whether the page has a
\* document table, rows the tr elements of that table.
PageGood ==
    [status |-> "ok", table |-> TRUE,
     rows |-> <<HeaderRow, Row(Txt10K, <<"main", ".htm">>),
                Row(TxtEx99, <<"ex99", ".htm">>)>>]
PageGoodUpper ==
    [status |-> "ok", table |-> TRUE,
     rows |-> <<HeaderRow, ShortRow, Row(TxtEx3, <<"ex3", ".htm">>),
                Row(Txt10KALower, <<"my doc", ".HTM">>)>>]
PageAbsLast ==
    [status |-> "ok", table |-> TRUE,
     rows |-> <<HeaderRow, Row(Txt10K, <<"main", ".htm">>),
                Row(TxtEx1122, <<"ex1122", ".htm">>)>>]
PageAbsFirst ==
    [status |-> "ok", table |-> TRUE,
     rows |-> <<HeaderRow, Row(TxtEx35, <<"ex35", ".htm">>),
                Row(Txt10K, <<"main", ".htm">>)>>]
PageNoPrimary ==
    [status |-> "ok", table |-> TRUE,
     rows |-> <<HeaderRow, Row(Txt10K, <<"main", ".txt">>),
                Row(TxtEx3, <<"ex3", ".htm">>)>>]
PageMissing == [status |-> "404", table |-> FALSE, rows |-> <<>>]

\* The filings a call can be given, with the index page EDGAR has for each.
DocFilingA == [cik |-> CikA, accession_number |-> Acc(1), page |-> PageGood]
DocFilingB == [cik |-> CikB, accession_number |-> Acc(2), page |-> PageGoodUpper]
DocFilingC == [cik |-> CikC, accession_number |-> Acc(3), page |-> PageAbsLast]
DocFilingD == [cik |-> CikD, accession_number |-> Acc(4), page |-> PageAbsFirst]
DocFilingE == [cik |-> CikA, accession_number |-> Acc(5), page |-> PageNoPrimary]
DocFilingF == [cik |-> CikB, accession_number |-> Acc(6), page |-> PageMissing]
DocFilings == {DocFilingA, DocFilingB, DocFilingC, DocFilingD, DocFilingE,
               DocFilingF}

RECURSIVE FilingLists(_)
FilingLists(n) ==
    IF n = 0 THEN {<<>>}
    ELSE LET shorter == FilingLists(n - 1)
         IN  shorter \cup {Append(l, f) : l \in {s \in shorter : Len(s) = n - 1},
                                          f \in DocFilings}

\* What becomes of the GET of an index page: as HttpAnswer, and the server may
\* also serve a page that has no document table.
PageResponses == {"served", "500", "timeout", "no_table"}

\* HTMLMetadataParser._make_request_internal: the NotFoundError and the
\* NetworkError of a status >= 400 are raised inside the try block, where
\* `except Exception` catches them and raises NetworkError in their place.
make_request_internal(answer) ==
    CASE answer \in {"200", "no_table"} -> "Response"
      [] answer = "timeout" -> "RequestTimeoutError"
      [] OTHER -> "NetworkError"

\* The loop over rows[1:] of find_primary_document, from parsed_htm_filename
\* as found so far: it breaks at the first row of an ABS exhibit type.
RECURSIVE ScanRows(_, _, _)
ScanRows(rows, target_form_types, parsed_htm_filename) ==
    IF rows = <<>>
    THEN [filename |-> parsed_htm_filename, is_likely_abs |-> FALSE]
    ELSE LET row == Head(rows)
             doc_type_cell_text == text_upper(row.type)
         IN  IF row.cells < 4
             THEN ScanRows(Tail(rows), target_form_types, parsed_htm_filename)
             ELSE IF \E prefix \in abs_exhibit_prefixes :
                        startswith(doc_type_cell_text, prefix)
             THEN [filename |-> parsed_htm_filename, is_likely_abs |-> TRUE]
             ELSE IF /\ parsed_htm_filename = <<>>
                     /\ doc_type_cell_text \in
                            {text_upper(f) : f \in target_form_types}
                     /\ endswith_htm(row.filename)
             THEN ScanRows(Tail(rows), target_form_types, <<row.filename>>)
             ELSE ScanRows(Tail(rows), target_form_types, parsed_htm_filename)

\* HTMLMetadataParser.find_primary_document: (filename or None, is_likely_abs),
\* or the exception raised.
find_primary_document(cik, accession_number, target_form_types, answer, page) ==
    LET none == [filename |-> <<>>, is_likely_abs |-> FALSE, raises |-> "none"]
        r == make_request_internal(answer)
    IN  IF cik = <<>> \/ accession_number = <<>> \/ ~isdigit(cik)
        THEN [none EXCEPT !.raises = "ValueError"]
        ELSE IF r = "NotFoundError" THEN none
        ELSE IF r /= "Response" THEN [none EXCEPT !.raises = r]
        ELSE IF answer = "no_table" \/ ~page.table
        THEN [none EXCEPT !.raises = "ParsingError"]
        ELSE IF Len(page.rows) < 2 THEN none
        ELSE LET s == ScanRows(Tail(page.rows), target_form_types, <<>>)
             IN  IF s.is_likely_abs
                 THEN [none EXCEPT !.is_likely_abs = TRUE]
                 ELSE [none EXCEPT !.filename = s.filename]

\* PipelineService._sanitize_filename on the names of the pages above.
sanitize_filename(filename) ==
    IF filename[1] = "my doc" THEN <<"my_doc", filename[2]>> ELSE filename

\* document_storage_dir / f"{cik}_{acc_no_dashes}_{safe_filename}"
OutputPath(cik, accession_number, primary_filename) ==
    <<cik, accession_number, sanitize_filename(primary_filename)>>

\* PipelineService._prepare_download_task: <<task>>, or <<>> for None, with
\* what the scanner answered.
prepare_download_task(filing_info, target_forms, answer) ==
    LET cik == filing_info.cik
        accession_number == filing_info.accession_number
        found == find_primary_document(cik, accession_number, target_forms,
                                       answer, filing_info.page)
        task == IF /\ cik /= <<>>
                   /\ accession_number /= <<>>
                   /\ found.raises = "none"
                   /\ ~found.is_likely_abs
                   /\ found.filename /= <<>>
                THEN <<[cik |-> cik, accession_number |-> accession_number,
                        primary_filename |-> found.filename[1],
                        output_path |-> OutputPath(cik, accession_number,
                                                   found.filename[1])]>>
                ELSE <<>>
    IN  [task_details |-> task, found |-> found]

\* The file system under document_storage_dir, as the set of its files.
PathExists(files, path) == \E f \in files : f.path = path
WriteFile(files, path, content) ==
    {f \in files : f.path /= path} \cup {[path |-> path, content |-> content]}
OldFileA ==
    [path |-> OutputPath(CikA, Acc(1), <<"main", ".htm">>), content |-> "old"]

\* Every file is fetched again, whether it exists or not.
ShouldSkipNever(skip_existing, exists) == FALSE

\* if skip_existing and output_path_to_check.exists()
ShouldSkip(skip_existing, exists) == skip_existing /\ exists

\* Nothing to download and nothing counted.
ReturnNoTasksZero(errors) == <<0, 0>>

\* if not download_tasks: return 0, prep_errors
ReturnNoTasks(errors) == <<0, errors>>

\* The cap on len(download_tasks) is tested after the append.
CapReached(tasks, max_downloads) ==
    max_downloads /= <<>> /\ Len(tasks) >= max_downloads[1]

StartDownload(filings_to_process, target_forms, num_threads, max_downloads, skip_existing) ==
    /\ doc_pc = "idle"
    /\ doc_input' = [filings_to_process |-> filings_to_process,
                     target_forms |-> target_forms,
                     num_threads |-> num_threads,
                     max_downloads |-> max_downloads,
                     skip_existing |-> skip_existing]
    /\ doc_pc' = IF filings_to_process = <<>> THEN "prepared" ELSE "prepare"
    /\ UNCHANGED <<doc_index, download_tasks, prep_errors, skipped_existing, disk,
                   disk_at_start, future_to_path, future_result, success_count,
                   failure_count, doc_result, doc_raised, scan_log>>
    /\ UNCHANGED <<pacerVars, storeVars, runVars, bulkVars, incVars, archiveVars, fnVars>>

\* One pass of the loop of stage 1.
PrepareFiling(response) ==
    /\ doc_pc = "prepare"
    /\ LET filing_info == doc_input.filings_to_process[doc_index + 1]
           answer == HttpAnswer(response, filing_info.page)
           prepared == prepare_download_task(filing_info, doc_input.target_forms,
                                             answer)
           task_details == prepared.task_details
           exists == /\ task_details /= <<>>
                     /\ PathExists(disk, task_details[1].output_path)
           skip == ShouldSkip(doc_input.skip_existing, exists)
           tasks == IF task_details /= <<>> /\ ~skip
                    THEN Append(download_tasks, task_details[1])
                    ELSE download_tasks
       IN  /\ download_tasks' = tasks
           /\ skipped_existing' = skipped_existing
                                    + (IF task_details /= <<>> /\ skip THEN 1 ELSE 0)
           /\ prep_errors' = prep_errors + (IF task_details = <<>> THEN 1 ELSE 0)
           /\ scan_log' = Append(scan_log,
                                 [filing |-> filing_info, answer |-> answer,
                                  found |-> prepared.found,
                                  outcome |-> IF task_details = <<>> THEN "none"
                                              ELSE IF skip THEN "skipped"
                                              ELSE "task"])
           /\ doc_pc' = IF \/ CapReached(tasks, doc_input.max_downloads)
                           \/ doc_index + 1 = Len(doc_input.filings_to_process)
                        THEN "prepared" ELSE "prepare"
    /\ doc_index' = doc_index + 1
    /\ UNCHANGED <<doc_input, disk, disk_at_start, future_to_path, future_result,
                   success_count, failure_count, doc_result, doc_raised>>
    /\ UNCHANGED <<pacerVars, storeVars, runVars, bulkVars, incVars, archiveVars, fnVars>>

\* After the loop: return 0, prep_errors if there is nothing to download;
\* else open the pool (ThreadPoolExecutor raises ValueError for max_workers
\* <= 0) and submit every task.
SubmitDownloads ==
    /\ doc_pc = "prepared"
    /\ IF download_tasks = <<>>
       THEN /\ doc_result' = ReturnNoTasks(prep_errors)
            /\ doc_pc' = "done"
            /\ UNCHANGED <<future_to_path, future_result, failure_count, doc_raised>>
       ELSE IF doc_input.num_threads /= <<>> /\ doc_input.num_threads[1] <= 0
       THEN /\ doc_raised' = "ValueError"
            /\ doc_pc' = "done"
            /\ failure_count' = prep_errors
            /\ UNCHANGED <<future_to_path, future_result, doc_result>>
       ELSE /\ future_to_path' = [i \in 1..Len(download_tasks) |->
                                     download_tasks[i].output_path]
            /\ future_result' = [i \in 1..Len(download_tasks) |-> "pending"]
            /\ failure_count' = prep_errors
            /\ doc_pc' = "downloading"
            /\ UNCHANGED <<doc_result, doc_raised>>
    /\ UNCHANGED <<doc_input, doc_index, download_tasks, prep_errors,
                   skipped_existing, disk, disk_at_start, success_count, scan_log>>
    /\ UNCHANGED <<pacerVars, storeVars, runVars, bulkVars, incVars, archiveVars, fnVars>>

\* What becomes of the GET of a document, and of the mkdir before it.
DocResponses == {"200", "404", "timeout", "empty", "mkdir_fails"}

\* DocumentDownloader.download: True after writing the file, False for a
\* failed request or an empty body, FileSystemError if mkdir fails.
DocumentDownloaderDownload(response) ==
    IF response = "mkdir_fails" THEN "FileSystemError"
    ELSE IF response = "empty" THEN "False"
    ELSE IF make_request(response) = "Response" THEN "True"
    ELSE "False"

\* A worker runs one submitted download, and the main thread counts its
\* result as the future completes.
CompleteDownload(i, response) ==
    /\ doc_pc = "downloading"
    /\ i \in DOMAIN future_result
    /\ future_result[i] = "pending"
    /\ LET success == DocumentDownloaderDownload(response)
       IN  /\ future_result' = [future_result EXCEPT ![i] = success]
           /\ disk' = IF success = "True"
                      THEN WriteFile(disk, future_to_path[i], "new")
                      ELSE disk
           /\ success_count' = success_count + (IF success = "True" THEN 1 ELSE 0)
           /\ failure_count' = failure_count + (IF success = "True" THEN 0 ELSE 1)
    /\ UNCHANGED <<doc_pc, doc_input, doc_index, download_tasks, prep_errors,
                   skipped_existing, disk_at_start, future_to_path, doc_result,
                   doc_raised, scan_log>>
    /\ UNCHANGED <<pacerVars, storeVars, runVars, bulkVars, incVars, archiveVars, fnVars>>

\* return success_count, failure_count
DownloadReturn ==
    /\ doc_pc = "downloading"
    /\ \A i \in DOMAIN future_result : future_result[i] /= "pending"
    /\ doc_result' = <<success_count, failure_count>>
    /\ doc_pc' = "done"
    /\ UNCHANGED <<doc_input, doc_index, download_tasks, prep_errors,
                   skipped_existing, disk, disk_at_start, future_to_path,
                   future_result, success_count, failure_count, doc_raised,
                   scan_log>>
    /\ UNCHANGED <<pacerVars, storeVars, runVars, bulkVars, incVars, archiveVars, fnVars>>

\* One call of download_filing_documents, on a storage directory that is
\* empty or holds filing A's document from an earlier call.
DocInit ==
    /\ now = 0
    /\ PacerAtRest
    /\ foreign_key_checks = TRUE
    /\ edgar = NoEdgar
    /\ IngestAtRest
    /\ disk \in {{}, {OldFileA}}
    /\ DocAtRest
    /\ ArchiveAtRest
    /\ FnAtRest

DocNext ==
    \/ doc_pc = "idle" /\
       \E filings_to_process \in FilingLists(MaxFilings),
          target_forms \in {DocForms},
          num_threads \in {<<>>, <<0>>},
          max_downloads \in {<<>>} \cup {<<n>> : n \in 0..(MaxFilings - 1)},
          skip_existing \in BOOLEAN :
          StartDownload(filings_to_process, target_forms, num_threads,
                        max_downloads, skip_existing)
    \/ \E response \in PageResponses : PrepareFiling(response)
    \/ SubmitDownloads
    \/ \E i \in DOMAIN future_result, response \in DocResponses :
          CompleteDownload(i, response)
    \/ DownloadReturn

SpecDownload == DocInit /\ [][DocNext]_vars

-----------------------------------------------------------------------------
(* BulkDownloader.download: the bulk archive streamed to output_path *)

MaxBodyChunks == 4
MaxArchiveCalls == 3

\* The file at output_path: <<>> if there is none, else how many chunks of
\* how long a body it holds.
FileOf(chunks, body) == <<[chunks |-> chunks, of |-> body]>>
IsPartial(file) == file /= <<>> /\ file[1].chunks < file[1].of

\* What becomes of the GET of the archive, of the mkdir before it and of the
\* open() after it.
ArchiveResponses == {"200", "404", "500", "timeout", "network", "mkdir_fails",
                     "open_fails"}

\* The handler of IOError: if output_path.exists(): output_path.unlink(),
\* and an OSError of unlink only logs a warning.
RemovePartial(file, unlink_ok) == IF unlink_ok THEN <<>> ELSE file

\* The handler of a generic Exception: return False, nothing removed.
KeepPartial(file, unlink_ok) == file

\* download up to the first chunk: mkdir, _make_request, open(output_path, 'wb').
ArchiveRequest(response, body, unlink_ok) ==
    /\ archive_pc \in {"idle", "done"}
    /\ archive_calls < MaxArchiveCalls
    /\ archive_calls' = archive_calls + 1
    /\ CASE response = "mkdir_fails" ->
              /\ archive_result' = "FileSystemError"
              /\ archive_pc' = "done"
              /\ UNCHANGED archive_file
         [] response = "open_fails" ->
              /\ archive_result' = "False"
              /\ archive_pc' = "done"
              /\ archive_file' = IF archive_file = <<>> THEN <<>>
                                 ELSE RemovePartial(archive_file, unlink_ok)
         [] make_request(response) = "Response" /\ response = "200" ->
              /\ archive_result' = "none"
              /\ archive_pc' = "streaming"
              /\ archive_file' = FileOf(0, body)
         [] OTHER ->
              /\ archive_result' = "False"
              /\ archive_pc' = "done"
              /\ UNCHANGED archive_file
    /\ response \in {"200", "open_fails"} \/ (unlink_ok /\ body = 1)
    /\ response = "200" \/ body = 1
    /\ archive_file /= <<>> \/ response /= "open_fails" \/ unlink_ok
    /\ UNCHANGED <<pacerVars, storeVars, runVars, bulkVars, incVars, docVars, fnVars>>

\* shutil.copyfileobj moves one chunk of the body to the file.
ArchiveChunk ==
    /\ archive_pc = "streaming"
    /\ archive_file[1].chunks < archive_file[1].of
    /\ archive_file' = FileOf(archive_file[1].chunks + 1, archive_file[1].of)
    /\ UNCHANGED <<archive_pc, archive_result, archive_calls>>
    /\ UNCHANGED <<pacerVars, storeVars, runVars, bulkVars, incVars, docVars, fnVars>>

\* The handler an error during the copy ends in: a failed write to the disk
\* is an IOError; a connection lost or timed out while response.raw is read
\* is raised by urllib3 as ProtocolError or ReadTimeoutError, which are not
\* IOErrors and are caught by `except Exception`.
AfterStreamError(kind, file, unlink_ok) ==
    IF kind = "IOError" THEN RemovePartial(file, unlink_ok)
    ELSE KeepPartial(file, unlink_ok)

\* The copy is interrupted before the body is complete.
ArchiveInterrupt(kind, unlink_ok) ==
    /\ archive_pc = "streaming"
    /\ archive_file[1].chunks < archive_file[1].of
    /\ kind = "IOError" \/ unlink_ok
    /\ archive_file' = AfterStreamError(kind, archive_file, unlink_ok)
    /\ archive_result' = "False"
    /\ archive_pc' = "done"
    /\ UNCHANGED archive_calls
    /\ UNCHANGED <<pacerVars, storeVars, runVars, bulkVars, incVars, docVars, fnVars>>

\* The body is complete: return True.
ArchiveReturn ==
    /\ archive_pc = "streaming"
    /\ archive_file[1].chunks = archive_file[1].of
    /\ archive_result' = "True"
    /\ archive_pc' = "done"
    /\ UNCHANGED <<archive_file, archive_calls>>
    /\ UNCHANGED <<pacerVars, storeVars, runVars, bulkVars, incVars, docVars, fnVars>>

ArchiveInit ==
    /\ now = 0
    /\ PacerAtRest
    /\ foreign_key_checks = TRUE
    /\ edgar = NoEdgar
    /\ IngestAtRest
    /\ disk = {}
    /\ DocAtRest
    /\ ArchiveAtRest
    /\ FnAtRest

ArchiveNext ==
    \/ \E response \in ArchiveResponses, body \in 1..MaxBodyChunks,
          unlink_ok \in BOOLEAN :
          ArchiveRequest(response, body, unlink_ok)
    \/ ArchiveChunk
    \/ \E kind \in {"IOError", "ProtocolError", "ReadTimeoutError"},
          unlink_ok \in BOOLEAN :
          ArchiveInterrupt(kind, unlink_ok)
    \/ ArchiveReturn

SpecArchive == ArchiveInit /\ [][ArchiveNext]_vars

\* The entries of index_log that record a failure.
LogErrors == {i \in DOMAIN index_log : index_log[i].error /= "none"}

\* The filings of the logged indices that a store accepting the batch holds:
\* each is in the table unless its cik has no company under the foreign key.
LoggedFilingsStored ==
    \A i \in DOMAIN index_log : \A k \in DOMAIN index_log[i].filings :
        LET f == index_log[i].filings[k]
        IN  \/ f.accession_number \in AccessionsOf(filings)
            \/ foreign_key_checks /\ ColumnCik(f.cik) \notin CiksOf(companies)

\* C11: in an incremental run a daily index answered 404 is absent and is no
\* error, so the success signal is untouched by it; an index answered 500 is
\* an error of its own date only: every date of the window is still fetched
\* once, oldest first, every index served is parsed, and the filings of the
\* dates that succeeded are handed to the store and inserted.
C11_MissingIsAbsentAndFailureIsLocal ==
    op = "incremental" =>
        /\ \A i \in DOMAIN index_log :
              LET e == index_log[i]
                  days_ago == input.days_to_check - (i - 1)
                  parsed == IndexParserParse(DailyIndex(days_ago), NoForms)
              IN  /\ e.period = <<days_ago>>
                  /\ e.answer = "404" => e.error = "none" /\ e.filings = <<>>
                  /\ e.answer = "500" => e.error = "download"
                  /\ e.answer = "200" /\ ~parsed.raises
                         => e.error = "none" /\ e.filings = parsed.filings
        /\ pc \in {"inc_date", "inc_insert"} => overall_success = (LogErrors = {})
        /\ pc /= "inc_date" => Len(index_log) = input.days_to_check
        /\ insert_calls > 0 /\ ~rejected => LoggedFilingsStored

\* A window of three dates answered 404, 500 and 200 in some order, whose one
\* good date's filings are in the store.
C11_Witness ==
    /\ op = "incremental"
    /\ Len(index_log) = 3
    /\ {index_log[i].answer : i \in DOMAIN index_log} = {"404", "500", "200"}
    /\ \E i \in DOMAIN index_log : index_log[i].filings /= <<>>
    /\ insert_calls > 0
    /\ ~rejected
    /\ filings /= <<>>
    /\ LogErrors /= {}

\* C12: a daily index answered 403 is treated as one answered 404: absent, and
\* no failure recorded for its date.
C12_ForbiddenIsAbsent ==
    op = "incremental" =>
        \A i \in DOMAIN index_log :
            index_log[i].answer = "403" => index_log[i].error = "none"

\* range(start_year, end_year + 1) x range(1, 5), in the order of the loops.
YearQuarters(start_year, end_year) ==
    [k \in 1..(IF end_year < start_year THEN 0 ELSE 4 * (end_year - start_year + 1)) |->
        <<start_year + ((k - 1) \div 4), ((k - 1) % 4) + 1>>]

\* C13: a backfill attempts every (year, quarter) of its range exactly once,
\* years ascending and quarters 1 to 4 within a year, whatever failed before;
\* it returns failure exactly when some quarter had a download, parse or store
\* error, and a quarter whose index is absent is not an error.
C13_EveryQuarterOnceAscending ==
    op = "backfill" =>
        LET periods == YearQuarters(input.start_year, input.end_year)
        IN  /\ Len(index_log) <= Len(periods)
            /\ \A i \in DOMAIN index_log :
                  /\ index_log[i].period = periods[i]
                  /\ index_log[i].answer = "404" => index_log[i].error = "none"
            /\ pc \in {"backfill_return", "done"} => Len(index_log) = Len(periods)
            /\ pc = "done" => (result = "False" <=> LogErrors /= {})
            /\ pc = "done" => result \in {"True", "False"}

\* Two years whose first quarter failed to download, with a later quarter
\* parsed and stored, an absent one passed over, and failure returned.
C13_Witness ==
    /\ op = "backfill"
    /\ pc = "done"
    /\ input.start_year < input.end_year
    /\ Len(index_log) = 8
    /\ index_log[1].error = "download"
    /\ \E i \in DOMAIN index_log : index_log[i].error = "parse"
    /\ \E i \in DOMAIN index_log : index_log[i].error = "store"
    /\ \E i \in DOMAIN index_log : index_log[i].answer = "404"
    /\ \E i \in DOMAIN index_log :
          index_log[i].error = "none" /\ index_log[i].filings /= <<>>
    /\ result = "False"

\* The exhibit types that mark a structured-finance filing.
StructuredFinancePrefixes ==
    {<<"E", "X", "-", "3", "3">>, <<"E", "X", "-", "3", "4">>,
     <<"E", "X", "-", "3", "5">>, <<"E", "X", "-", "1", "1", "2", "2">>,
     <<"E", "X", "-", "1", "1", "2", "3">>}

\* The page has a document row whose declared type starts with one of them.
HasStructuredFinanceRow(page) ==
    \E k \in 2..Len(page.rows) :
        /\ page.rows[k].cells >= 4
        /\ \E prefix \in StructuredFinancePrefixes :
              /\ Len(page.rows[k].type) >= Len(prefix)
              /\ \A c \in 1..Len(prefix) : page.rows[k].type[c] = prefix[c]

\* The page has a row of a target form with an HTML file name.
HasEligibleRow(page) ==
    \E k \in 2..Len(page.rows) :
        /\ page.rows[k].cells >= 4
        /\ text_upper(page.rows[k].type) \in DocForms
        /\ endswith_htm(page.rows[k].filename)

\* C14: when the scanner reads an index page with a row of a structured-
\* finance exhibit type it returns (None, true), an eligible row on the page
\* or not, and no download task or submitted download is ever for a filing
\* with such a page.
C14_StructuredFinanceNeverDownloaded ==
    /\ \A i \in DOMAIN scan_log :
          scan_log[i].answer = "200" /\ HasStructuredFinanceRow(scan_log[i].filing.page)
              => /\ scan_log[i].found =
                        [filename |-> <<>>, is_likely_abs |-> TRUE, raises |-> "none"]
                 /\ scan_log[i].outcome = "none"
    /\ \A j \in DOMAIN download_tasks : \A f \in DocFilings :
          f.accession_number = download_tasks[j].accession_number
              => ~HasStructuredFinanceRow(f.page)
    /\ \A j \in DOMAIN future_to_path : \A f \in DocFilings :
          f.accession_number = future_to_path[j][2]
              => ~HasStructuredFinanceRow(f.page)

\* A finished call that read a flagged page with an eligible row before the
\* exhibit row, and downloaded another filing's document.
C14_Witness ==
    /\ doc_pc = "done"
    /\ \E i \in DOMAIN scan_log :
          /\ scan_log[i].answer = "200"
          /\ scan_log[i].filing.page = PageAbsLast
          /\ HasEligibleRow(scan_log[i].filing.page)
          /\ scan_log[i].found.is_likely_abs
    /\ success_count >= 1

\* C15: an index page that is not found resolves to (absent, false) without
\* raising, and no scanner failure aborts the batch: the filings after it are
\* still prepared.
C15_MissingPageResolvesAbsent ==
    /\ \A i \in DOMAIN scan_log :
          scan_log[i].answer = "404"
              => scan_log[i].found =
                     [filename |-> <<>>, is_likely_abs |-> FALSE, raises |-> "none"]
    /\ doc_pc \in {"prepared", "downloading", "done"}
          /\ doc_input.max_downloads = <<>>
          => Len(scan_log) = Len(doc_input.filings_to_process)

\* C16: a call with a cap of n downloads submits at most n.
C16_CapBoundsSubmissions ==
    doc_pc /= "idle" /\ doc_input.max_downloads /= <<>>
        => Len(future_to_path) <= doc_input.max_downloads[1]

\* The entries of scan_log with an outcome, and the futures with a result.
Scanned(outcome) == {i \in DOMAIN scan_log : scan_log[i].outcome = outcome}
Futures(results) == {j \in DOMAIN future_result : future_result[j] \in results}

DestinationOf(entry) ==
    OutputPath(entry.filing.cik, entry.filing.accession_number,
               entry.found.filename[1])

\* C18: with skip_existing, a filing whose destination exists when it is
\* prepared is not submitted, and the file is as it was before the call.
C18_ExistingNotFetched ==
    doc_pc /= "idle" /\ doc_input.skip_existing =>
        \A i \in DOMAIN scan_log :
            /\ scan_log[i].found.filename /= <<>>
            /\ PathExists(disk_at_start, DestinationOf(scan_log[i]))
            => /\ scan_log[i].outcome = "skipped"
               /\ \A j \in DOMAIN download_tasks :
                     download_tasks[j].output_path /= DestinationOf(scan_log[i])
               /\ \A j \in DOMAIN future_to_path :
                     future_to_path[j] /= DestinationOf(scan_log[i])
               /\ \A f \in disk_at_start :
                     f.path = DestinationOf(scan_log[i]) => f \in disk

\* A finished call that skipped filing A, whose old file is still there, and
\* wrote another filing's document.
C18_Witness ==
    /\ doc_pc = "done"
    /\ doc_input.skip_existing
    /\ \E i \in DOMAIN scan_log : scan_log[i].outcome = "skipped"
    /\ OldFileA \in disk
    /\ \E f \in disk : f.content = "new"

\* C19: no two download tasks of a call have the same destination path.
C19_DistinctDestinations ==
    \A i, j \in DOMAIN download_tasks :
        i /= j => download_tasks[i].output_path /= download_tasks[j].output_path

\* C20: after download has returned False no partial file is at output_path.
C20_NoPartialAfterFalse ==
    archive_result = "False" => ~IsPartial(archive_file)

-----------------------------------------------------------------------------
(* Single calls of the parsers and the repositories, on inputs drawn from
   bounded sets *)

\* Everything but the call under study is at rest.
NothingElseRuns ==
    /\ now = 0
    /\ PacerAtRest
    /\ foreign_key_checks = TRUE
    /\ edgar = NoEdgar
    /\ IngestAtRest
    /\ disk = {}
    /\ DocAtRest
    /\ ArchiveAtRest

FnUnchanged ==
    UNCHANGED <<pacerVars, storeVars, runVars, bulkVars, incVars, docVars,
                archiveVars>>

\* The sequences over S of length at most n.
SeqsUpTo(S, n) == UNION {[1..k -> S] : k \in 0..n}

\* The longest index source that is parsed.
MaxSourceLines == 4

SourceLines ==
    {TextLine, HeaderLine, HeaderLine2, SeparatorLine, EmptyLine,
     MalformedLine, RowLine(Line1), RowLine(Line2)}

\* Form filters a caller may pass, in either case.
EightK == [given |-> TRUE, forms |-> {"8-K"}]
EightKLower == [given |-> TRUE, forms |-> {"8-k"}]
FormFilters == {NoForms, TenK, EightK, EightKLower}

IndexParseInit ==
    /\ NothingElseRuns
    /\ fn_pc = "ready"
    /\ fn_input \in [source : SeqsUpTo(SourceLines, MaxSourceLines),
                     target_forms : FormFilters]
    /\ fn_output = <<>>

\* parser.parse(input_source, target_forms=...)
ApplyIndexParse ==
    /\ fn_pc = "ready"
    /\ fn_output' = IndexParserParseSource(fn_input.source,
                                           fn_input.target_forms)
    /\ fn_pc' = "done"
    /\ UNCHANGED fn_input
    /\ FnUnchanged

IndexParseNext == ApplyIndexParse

SpecIndexParse == IndexParseInit /\ [][IndexParseNext]_vars

\* The positions of the dashed lines that come after a header line.
HeaderEnds(source) ==
    {j \in 1..Len(source) :
        /\ source[j].kind = "separator"
        /\ \E i \in 1..(j - 1) : is_header_line(source[i])}

Least(S) == CHOOSE x \in S : \A y \in S : x <= y

\* The data rows below line p of a source, in order.
RowsBelow(source, p) ==
    LET IsRow(line) == line.kind = "row"
        below == SelectSeq(SubSeq(source, p + 1, Len(source)), IsRow)
    IN  [k \in 1..Len(below) |-> below[k].row[1]]

\* C21: IndexParser.parse emits records only for the rows below the first
\* dashed line that follows a header line, fails if there is no such dashed
\* line, and returns an empty list without failing if no rows are below it.
C21_RecordsOnlyBelowHeader ==
    fn_pc = "done" =>
        LET source == fn_input.source
            ends == HeaderEnds(source)
            found == fn_output.filings
        IN  /\ fn_output.raises <=> ends = {}
            /\ ends = {} => found = <<>>
            /\ ends /= {} =>
                  LET rows == RowsBelow(source, Least(ends))
                  IN  /\ Len(found) <= Len(rows)
                      /\ \A k \in DOMAIN found : \E j \in DOMAIN rows :
                            /\ found[k].primary_document_filename
                                  = rows[j].path.file
                            /\ found[k].cik = rows[j].cik
                      /\ ~fn_input.target_forms.given
                            => [k \in DOMAIN found |->
                                   found[k].primary_document_filename]
                               = [j \in DOMAIN rows |-> rows[j].path.file]
                      /\ rows = <<>> => found = <<>> /\ ~fn_output.raises

\* A parsed source with a row above the header and a row below the dashed
\* line, of which only the second is emitted.
C21_Witness ==
    /\ fn_pc = "done"
    /\ Len(fn_input.source) = 4
    /\ fn_input.source[1].kind = "row"
    /\ is_header_line(fn_input.source[2])
    /\ fn_input.source[3].kind = "separator"
    /\ fn_input.source[4] = RowLine(Line2)
    /\ ~fn_output.raises
    /\ Len(fn_output.filings) = 1
    /\ fn_output.filings[1].primary_document_filename = Line2.path.file

\* The spellings of one form type: two form types are equal ignoring case
\* if they are the same or both belong to one of these sets.
CaseVariants == {{"8-K", "8-k"}, {"10-K", "10-k"}}
SameIgnoringCase(a, b) == a = b \/ \E c \in CaseVariants : a \in c /\ b \in c
IsUpperCase(form) == form \notin {"8-k", "10-k"}

\* The file names of the rows below the header of the parsed source whose
\* form type satisfies Keep, in order.
FilesOfRowsKept(Keep(_)) ==
    LET rows == RowsBelow(fn_input.source, Least(HeaderEnds(fn_input.source)))
        KeepRow(row) == Keep(row.form)
        kept == SelectSeq(rows, KeepRow)
    IN  [k \in DOMAIN kept |-> kept[k].path.file]

FilesEmitted ==
    [k \in DOMAIN fn_output.filings |->
        fn_output.filings[k].primary_document_filename]

\* C23: with a caller set of form types, a row is kept iff its form type
\* equals, ignoring case, some member of the set that is written in upper
\* case; a member written in lower case matches no row.
C23_UpperCaseMembersIgnoreCase ==
    fn_pc = "done" /\ ~fn_output.raises /\ fn_input.target_forms.given =>
        LET Keep(form) ==
                \E f \in fn_input.target_forms.forms :
                    IsUpperCase(f) /\ SameIgnoringCase(form, f)
        IN  FilesEmitted = FilesOfRowsKept(Keep)

\* A row of form type 8-k kept under the filter {8-K}.
C23_Witness ==
    /\ fn_pc = "done"
    /\ fn_input.target_forms = EightK
    /\ \E j \in DOMAIN fn_input.source : fn_input.source[j] = RowLine(Line2)
    /\ ~fn_output.raises
    /\ \E k \in DOMAIN fn_output.filings :
          /\ fn_output.filings[k].form_type = "8-K"
          /\ fn_output.filings[k].primary_document_filename = Line2.path.file

\* C23 as stated: a row is kept iff its form type equals some member of the
\* caller's set ignoring case, whatever the case of the members.
C23_AnyCaseMembersIgnoreCase ==
    fn_pc = "done" /\ ~fn_output.raises /\ fn_input.target_forms.given =>
        LET Keep(form) ==
                \E f \in fn_input.target_forms.forms : SameIgnoringCase(form, f)
        IN  FilesEmitted = FilesOfRowsKept(Keep)

-----------------------------------------------------------------------------
(* IndexParser._extract_accession_number on the characters of a path *)

\* The characters of a path: the digits 0..9 and three that are not digits.
Hyphen == 10
Slash == 11
Dot == 12

\* \d{n} matches the n characters of s from position i on.
DigitsAt(s, i, n) ==
    /\ i >= 1
    /\ i + n - 1 <= Len(s)
    /\ \A k \in i..(i + n - 1) : s[k] \in 0..9

\* (\d{10}-\d{2}-\d{6}) matches s from position i on.
DashedAt(s, i) ==
    /\ i + 19 <= Len(s)
    /\ DigitsAt(s, i, 10)
    /\ s[i + 10] = Hyphen
    /\ DigitsAt(s, i + 11, 2)
    /\ s[i + 13] = Hyphen
    /\ DigitsAt(s, i + 14, 6)

\* re.search: the leftmost position at which the pattern matches, if any.
SearchDashed(s) ==
    LET hits == {i \in 1..Len(s) : DashedAt(s, i)}
    IN  IF hits = {} THEN <<>> ELSE <<Least(hits)>>

SearchDigits(s, n) ==
    LET hits == {i \in 1..Len(s) : DigitsAt(s, i, n)}
    IN  IF hits = {} THEN <<>> ELSE <<Least(hits)>>

\* f"{d[:10]}-{d[10:12]}-{d[12:hi]}" for a run d of digits.
Hyphenate(d, hi) ==
    SubSeq(d, 1, 10) \o <<Hyphen>> \o SubSeq(d, 11, 12) \o <<Hyphen>>
        \o SubSeq(d, 13, hi)

\* A variant that looks for the run of 18 digits before the form with
\* dashes.
ExtractAccessionNumberRunFirst(filename_path) ==
    LET accession_match == SearchDashed(filename_path)
        accession_no_dash_match == SearchDigits(filename_path, 18)
    IN  IF accession_no_dash_match /= <<>>
        THEN LET acc_no_dash == SubSeq(filename_path,
                                       accession_no_dash_match[1],
                                       accession_no_dash_match[1] + 17)
             IN  <<Hyphenate(acc_no_dash, 18)>>
        ELSE IF accession_match /= <<>>
        THEN <<SubSeq(filename_path, accession_match[1],
                      accession_match[1] + 19)>>
        ELSE <<>>

\* IndexParser._extract_accession_number: the match of the pattern with
\* dashes, else the first run of 18 digits with the dashes put in, else the
\* first 18 of a run of 20 digits with the dashes put in, else None.
ExtractAccessionNumber(filename_path) ==
    LET accession_match == SearchDashed(filename_path)
        accession_no_dash_match == SearchDigits(filename_path, 18)
        accession_20_digit_match == SearchDigits(filename_path, 20)
    IN  IF accession_match /= <<>>
        THEN <<SubSeq(filename_path, accession_match[1],
                      accession_match[1] + 19)>>
        ELSE IF accession_no_dash_match /= <<>>
        THEN LET acc_no_dash == SubSeq(filename_path,
                                       accession_no_dash_match[1],
                                       accession_no_dash_match[1] + 17)
             IN  <<Hyphenate(acc_no_dash, Len(acc_no_dash))>>
        ELSE IF accession_20_digit_match /= <<>>
        THEN LET acc_20_digit == SubSeq(filename_path,
                                        accession_20_digit_match[1],
                                        accession_20_digit_match[1] + 19)
             IN  <<Hyphenate(acc_20_digit, 18)>>
        ELSE <<>>

\* The accession numbers that paths are made from.
MaxAccessions == 3

\* The ways a path carries (or fails to carry) the accession number acc.
PathShapes ==
    {"dashed", "run18", "run19", "run20", "run17", "short_dashed",
     "run18_then_dashed"}

PathBody(shape, acc) ==
    CASE shape = "dashed" -> Hyphenate(acc, 18)
      [] shape = "run18" -> acc
      [] shape = "run19" -> acc \o <<7>>
      [] shape = "run20" -> acc \o <<7, 8>>
      [] shape = "run17" -> SubSeq(acc, 1, 17)
      [] shape = "short_dashed" -> Tail(Hyphenate(acc, 18))
      [] shape = "run18_then_dashed" ->
            Acc(0) \o <<Slash>> \o Hyphenate(acc, 18)

PathInputs ==
    {[shape |-> shape, acc |-> Acc(n),
      path |-> prefix \o PathBody(shape, Acc(n)) \o suffix] :
        shape \in PathShapes, n \in 1..MaxAccessions,
        prefix \in {<<>>, <<1, 2, Slash>>}, suffix \in {<<>>, <<Dot>>}}

AccessionInit ==
    /\ NothingElseRuns
    /\ fn_pc = "ready"
    /\ fn_input \in PathInputs
    /\ fn_output = <<>>

\* self._extract_accession_number(filename_path, ...)
ApplyExtractAccession ==
    /\ fn_pc = "ready"
    /\ fn_output' = [accession_number |->
                        ExtractAccessionNumber(fn_input.path)]
    /\ fn_pc' = "done"
    /\ UNCHANGED fn_input
    /\ FnUnchanged

AccessionNext == ApplyExtractAccession

SpecAccession == AccessionInit /\ [][AccessionNext]_vars

-----------------------------------------------------------------------------
(* JSONParser.parse on the four parallel arrays of filings.recent *)

required_keys == {"form", "filingDate", "accessionNumber", "primaryDocument"}

\* min(len(lst) for lst in valid_lists) if valid_lists else 0, where
\* valid_lists holds the arrays that are not empty.
min_len(recent) ==
    LET valid_lists == {key \in required_keys : recent[key] /= <<>>}
    IN  IF valid_lists = {} THEN 0
        ELSE Least({Len(recent[key]) : key \in valid_lists})

\* for i in range(min_len), from index i on: an index past the end of an
\* array is an IndexError, which is counted like a record with a missing
\* field or an invalid date.
RECURSIVE ParseRecentFrom(_, _, _, _)
ParseRecentFrom(cik, recent, i, n) ==
    IF i > n THEN [filings |-> <<>>, parse_errors |-> 0]
    ELSE LET rest == ParseRecentFrom(cik, recent, i + 1, n)
             IndexError == \E key \in required_keys : Len(recent[key]) < i
             e == [key \in required_keys |-> recent[key][i]]
         IN  IF ~IndexError /\ RecordOk(e)
             THEN [filings |-> <<FilingOfRecord(cik, e)>> \o rest.filings,
                   parse_errors |-> rest.parse_errors]
             ELSE [filings |-> rest.filings,
                   parse_errors |-> rest.parse_errors + 1]

\* The filings extraction of JSONParser.parse.
ParseRecentArrays(cik, recent) == ParseRecentFrom(cik, recent, 1, min_len(recent))

\* The longest array of filings.recent.
MaxArrayLen == 2

RecentInputs ==
    [form : SeqsUpTo({"10-K", ""}, MaxArrayLen),
     filingDate : SeqsUpTo({"2024-01-02", "2024-13-01"}, MaxArrayLen),
     accessionNumber : SeqsUpTo({Acc(1), <<>>}, MaxArrayLen),
     primaryDocument : SeqsUpTo({"doc.htm", ""}, MaxArrayLen)]

JsonInit ==
    /\ NothingElseRuns
    /\ fn_pc = "ready"
    /\ fn_input \in RecentInputs
    /\ fn_output = <<>>

\* parser.parse(file_path) on a file whose filings.recent is fn_input.
ApplyJsonParse ==
    /\ fn_pc = "ready"
    /\ fn_output' = ParseRecentArrays(CikA, fn_input)
    /\ fn_pc' = "done"
    /\ UNCHANGED fn_input
    /\ FnUnchanged

JsonNext == ApplyJsonParse

SpecJson == JsonInit /\ [][JsonNext]_vars

\* The length of the shortest of the four arrays.
ShortestLength(recent) == Least({Len(recent[key]) : key \in required_keys})

\* C24: the filings emitted and the record errors counted add up to the
\* length of the shortest of the four arrays, and every index below that
\* length whose record is complete is emitted.
C24_EmittedPlusErrorsIsShortest ==
    fn_pc = "done" =>
        /\ Len(fn_output.filings) + fn_output.parse_errors
              = ShortestLength(fn_input)
        /\ Len(fn_output.filings)
              = Cardinality({i \in 1..ShortestLength(fn_input) :
                    RecordOk([key \in required_keys |-> fn_input[key][i]])})

-----------------------------------------------------------------------------
(* CompanyRepository.bulk_upsert on a table and a batch *)

\* The longest batch of company mappings.
MaxBatch == 2

CompanyRows == [cik : {CikA, CikB, CikC}, name : {"Acme", "Apex"}, sic : {"3570", "6189"}]

\* The table companies has the primary key cik.
CompanyTables ==
    {t \in SUBSET [cik : {CikA, CikB, CikC}, name : {"Acme", "Apex"}, sic : {"3570"}] :
        \A r, s \in t : r.cik = s.cik => r = s}

\* The batches the pipeline passes: list(chunk_company_data.values()) and
\* companies_to_upsert hold one mapping for each CIK.
CompanyBatches ==
    {b \in SeqsUpTo(CompanyRows, MaxBatch) :
        \A i, j \in DOMAIN b : b[i].cik = b[j].cik => i = j}

UpsertInit ==
    /\ NothingElseRuns
    /\ fn_pc = "ready"
    /\ fn_input \in [table : CompanyTables, company_mappings : CompanyBatches,
                     fault : BOOLEAN]
    /\ fn_output = <<>>

\* company_repo.bulk_upsert(company_mappings)
ApplyBulkUpsert ==
    /\ fn_pc = "ready"
    /\ fn_output' = bulk_upsert(fn_input.table, fn_input.company_mappings,
                                fn_input.fault)
    /\ fn_pc' = "done"
    /\ UNCHANGED fn_input
    /\ FnUnchanged

UpsertNext == ApplyBulkUpsert

SpecUpsert == UpsertInit /\ [][UpsertNext]_vars

-----------------------------------------------------------------------------
(* The order of parsing and writing in a bulk run *)

\* The number of files in the chunks up to and including chunk i.
FilesThroughChunk(i) == Min((i + 1) * input.chunk_size, Len(input.files))

\* C26: in a bulk run the store is written for a chunk only when all files
\* of that chunk have been parsed, a chunk is parsed only when nothing of
\* the chunk before it is left to write, the filings of a chunk are inserted
\* only after its companies have been upserted, and no step writes both
\* tables.
C26_ParseThenUpsertThenInsert ==
    [][op = "bulk" /\ pc /= "done" =>
          /\ (companies' /= companies \/ filings' /= filings)
                => files_parsed = FilesThroughChunk(chunk_index)
          /\ pc \in {"bulk_upsert", "bulk_insert"}
                => files_parsed = FilesThroughChunk(chunk_index)
          /\ files_parsed' /= files_parsed
                => /\ pc = "bulk_parse"
                   /\ files_parsed = chunk_index * input.chunk_size
                   /\ chunk_company_data = <<>>
                   /\ chunk_filings_data = <<>>
                   /\ files_parsed' = FilesThroughChunk(chunk_index)
          /\ companies' /= companies
                => pc = "bulk_upsert" /\ filings' = filings
          /\ filings' /= filings
                => /\ pc = "bulk_insert"
                   /\ companies' = companies
                   /\ \A i \in DOMAIN chunk_company_data :
                         chunk_company_data[i] \in companies
    ]_vars

\* The second chunk of a run about to be inserted: its companies are in the
\* store, next to the companies and filings of the first chunk.
C26_Witness ==
    /\ op = "bulk"
    /\ pc = "bulk_insert"
    /\ chunk_index = 1
    /\ chunk_filings_data /= <<>>
    /\ chunk_company_data /= <<>>
    /\ \A i \in DOMAIN chunk_company_data : chunk_company_data[i] \in companies
    /\ filings /= <<>>
    /\ files_parsed = Len(input.files)

-----------------------------------------------------------------------------
(* Store rejections in an incremental run *)

-----------------------------------------------------------------------------
(* The form filter of a backfill *)

\* C28: every quarter of a backfill is parsed under the filter in force: the
\* caller's form set if one was passed, else the configured
\* backfill_target_forms; all forms are kept only if there is neither.
C28_DefaultFormsApplied ==
    op = "backfill" =>
        \A i \in DOMAIN index_log :
            LET entry == index_log[i]
                index == QuarterlyIndex(entry.period[1], entry.period[2])
                forms == EffectiveFormsToInclude(input.forms_to_include,
                                                 input.backfill_target_forms)
            IN  entry.answer = "200" /\ index.header_ok
                    => entry.filings = ParseLines(index.lines, forms)

-----------------------------------------------------------------------------
(* The thread pool of download_filing_documents *)

\* The most download tasks submitted, the largest DOWNLOAD_THREADS
\* configured, and the most CPUs of the machine.
MaxPoolTasks == 3
MaxThreadSetting == 2
MaxCpuCount == 2

\* ThreadPoolExecutor(max_workers=None): min(32, (os.cpu_count() or 1) + 4).
DefaultMaxWorkers(cpu_count) == Min(32, cpu_count + 4)

\* with concurrent.futures.ThreadPoolExecutor(max_workers=num_threads)
max_workers(call) ==
    IF call.num_threads = <<>> THEN DefaultMaxWorkers(call.cpu_count)
    ELSE call.num_threads[1]

\* _num_threads = num_threads if num_threads is not None
\*                else self.settings.pipeline.download_threads
NumThreadsLogged(call) ==
    IF call.num_threads = <<>> THEN call.download_threads
    ELSE call.num_threads[1]

\* The downloads a worker thread is running.
InFlight == {i \in DOMAIN fn_output : fn_output[i] = "running"}

PoolInit ==
    /\ NothingElseRuns
    /\ fn_pc = "ready"
    /\ fn_input \in [tasks : 1..MaxPoolTasks,
                     num_threads : {<<>>} \cup {<<n>> : n \in 0..MaxThreadSetting},
                     download_threads : 1..MaxThreadSetting,
                     cpu_count : 1..MaxCpuCount]
    /\ fn_output = <<>>

\* The executor is built and every task is submitted to it; max_workers <= 0
\* is a ValueError.
PoolSubmit ==
    /\ fn_pc = "ready"
    /\ IF max_workers(fn_input) <= 0
       THEN fn_pc' = "ValueError" /\ UNCHANGED fn_output
       ELSE /\ fn_pc' = "pool"
            /\ fn_output' = [i \in 1..fn_input.tasks |-> "queued"]
    /\ UNCHANGED fn_input
    /\ FnUnchanged

\* An idle or new worker thread takes a task off the queue; the executor
\* starts no more than max_workers threads.
WorkerTakes(i) ==
    /\ fn_pc = "pool"
    /\ fn_output[i] = "queued"
    /\ Cardinality(InFlight) < max_workers(fn_input)
    /\ fn_output' = [fn_output EXCEPT ![i] = "running"]
    /\ UNCHANGED <<fn_pc, fn_input>>
    /\ FnUnchanged

\* self.document_downloader.download returns or raises in its worker.
WorkerFinishes(i) ==
    /\ fn_pc = "pool"
    /\ fn_output[i] = "running"
    /\ fn_output' = [fn_output EXCEPT ![i] = "finished"]
    /\ UNCHANGED <<fn_pc, fn_input>>
    /\ FnUnchanged

\* The with block is left when every future is done.
PoolShutdown ==
    /\ fn_pc = "pool"
    /\ \A i \in DOMAIN fn_output : fn_output[i] = "finished"
    /\ fn_pc' = "done"
    /\ UNCHANGED <<fn_input, fn_output>>
    /\ FnUnchanged

PoolNext ==
    \/ PoolSubmit
    \/ \E i \in DOMAIN fn_output : WorkerTakes(i)
    \/ \E i \in DOMAIN fn_output : WorkerFinishes(i)
    \/ PoolShutdown

SpecPool == PoolInit /\ [][PoolNext]_vars

\* C29: the downloads in flight are never more than num_threads when the
\* caller gives it, and never more than the configured download_threads when
\* the caller does not.
C29_InFlightWithinWorkerCount ==
    fn_pc = "pool" => Cardinality(InFlight) <= NumThreadsLogged(fn_input)

-----------------------------------------------------------------------------
(* The result of an incremental run *)

\* C30: an incremental run that returns, returns True exactly if no date's
\* index failed to download or parse, no store write was rejected and no
\* company fetch failed, whether or not it collected any filing.
C30_TrueIffNothingFailed ==
    op = "incremental" /\ pc = "done" /\ raised = "none" =>
        (result = "True" <=>
            /\ LogErrors = {}
            /\ ~rejected
            /\ \A i \in DOMAIN fetch_log : fetch_log[i].details /= <<>>)

====
